---------------------------- MODULE Spec2Model ----------------------------
(***************************************************************************)
(* A model of the tworld browser client and of the session layer its spec  *)
(* describes.                                                              *)
(*                                                                         *)
(*   SpecPrefs  the uiprefs hysteresis timer and the websocket life cycle  *)
(*              of src/static/js/play.js                                   *)
(***************************************************************************)
EXTENDS Integers, Sequences, FiniteSets, TLC

(***************************************************************************)
(* Bounds of the model.                                                    *)
(***************************************************************************)
\* the clock runs from 0 to MaxTime seconds
MaxTime == 5
\* at most MaxChanges preference changes are made
MaxChanges == 3
\* the server sends at most MaxEvents event-pane messages
MaxEvents == 4
\* the server sends at most MaxPlistOps updateplist messages
MaxPlistOps == 4
\* at most MaxMutations mutation events are notified
MaxMutations == 2
\* Save is pressed at most MaxSaves times
MaxSaves == 2
\* at most MaxAttach connections ask to be attached
MaxAttach == 3
\* preference changes and input lines together while the connection flags are
\* watched
MaxConnOps == 2
\* at most MaxSubmits lines are entered into the input field
MaxSubmits == 2
\* the user clicks at most MaxClicks entries of the portal list
MaxClicks == 1
\* the build page makes at most MaxPosts POSTs
MaxPosts == 2
\* the user enters at most MaxCommands lines
MaxCommands == 1
\* while connections come and go: at most MaxOps attaches and notifications
MaxOps == 3

(***************************************************************************)
(* Program constants.                                                      *)
(***************************************************************************)
\* note_uipref_changed: delay_func(2, send_uipref_changed)
UIPREF_DELAY == 2
\* handle_*_doneresize: if (percent < 25) percent = 25
PERCENT_MIN == 25
\* handle_*_doneresize: if (percent > 85) percent = 85
PERCENT_MAX == 85
\* var uiprefs = { leftright_percent: 75, ... }
LEFTRIGHT_DEFAULT == 75
\* var uiprefs = { updown_percent: 70, ... }
UPDOWN_DEFAULT == 70
\* var EVENT_TRIM_LIMIT = 200
EVENT_TRIM_LIMIT == 200
\* var EVENT_TRIM_KEEP = 160
EVENT_TRIM_KEEP == 160
\* if (eventhistory.length > 30) eventhistory.shift()
HISTORY_MAX == 30

\* The percentages a finished resize may report (100 * size / parent).
ResizePercents == {20, 90}

\* The preference keys play.js changes at run time.
PrefKeys == {"leftright_percent", "updown_percent"}

VARIABLES
    \* ---- src/static/js/play.js: connection
    websocket,            \* "null" or "ws" (the WebSocket object)
    connected,
    everconnected,
    sock,                 \* the browser's socket: "none", "connecting", "open", "closed"
    wsout,                \* what websocket.send() was given, in order
    \* ---- src/static/js/play.js: preferences
    uiprefs,
    changed_uiprefs,      \* the keys of the changed_uiprefs object
    uipref_changed_timer, \* 0 (null) or the handle setTimeout returned
    timers,               \* the browser's pending timeouts: [id, due]
    nexttimer,            \* the handle the next setTimeout returns
    now,                  \* the clock, in seconds
    \* ---- the page
    view,                 \* the tool column, locale pane and focus pane
    eventpane,            \* the .Event lines of #eventpane, oldest first
    lastcmd,              \* the cmd of the websocket message handled last
    wsin,                 \* messages the websocket holds for onmessage, in order
    nserial,              \* how many messages the server has put into wsin
    \* ---- the tool column's lists
    plist,                \* toolsegments['plist']: [map, list]
    plistops,             \* what updateplist messages have done so far
    portlist,             \* the server's portal list of the player
    availscopemap,        \* scid -> scope object, in insertion order
    availscopelist,       \* the scopes of availscopemap, sorted
    scopeops,             \* what updatescopes messages have done so far
    \* ---- the browser's console
    consolelog,           \* the cmds logged as 'command not understood'
    uncaught,             \* the cmds whose onmessage ended in an uncaught error
    \* ---- the input line
    issued,               \* the commands submit_line_input has issued: [obj, conn]
    eventhistory,         \* the command history, oldest entry first
    eventhistorypos,      \* the history position, 0 .. eventhistory.length
    inputval,             \* the text in the input field #eventinput
    entered,              \* the call of submit_line_input made last: [n, val, conn]
    \* ---- the server's fanout (spec.md 4.3)
    binding,              \* session -> its (scope, location), or Unbound
    pending_outbox,       \* session -> the deltas queued for it, oldest first
    inbox,                \* session -> what was delivered to it, in order
    dropped,              \* session -> the deltas discarded at dequeue
    log,                  \* the mutation events notified so far
    \* ---- the server's connection registry (spec.md 4.1)
    registry,             \* the connections attached so far: [session, state]
    purged,               \* session -> the ids of the deltas dropped at detach
    \* ---- src/static/js/build.js and the property store behind /build/setprop
    store,                \* the stored property: [val, version]
    rows,                 \* editor -> its table row (propref)
    readver,              \* editor -> the store version its propref.val was read at
    requests,             \* editor -> the POST in flight, or NoMsg
    replies,              \* editor -> the reply in flight, or NoMsg
    commits,              \* the writes the store has applied
    outcomes,             \* what the ajax callbacks of the saves have found
    \* ---- src/static/js/build.js: one property table and its server
    tableref,             \* tables[tablekey]: [proplist, propmap, nobj]
    posts,                \* the POSTs of jQuery.ajax the server has not handled
    answers,              \* the replies whose callbacks have not run
    dbprops,              \* the server's properties: id -> value or Tombstone
    nposts,               \* how many POSTs the page has made
    \* ---- observations (history)
    noted,                \* the calls of note_uipref_changed: [t, key, val]
    fires                 \* the runs of send_uipref_changed:
                          \* [t, upto, conn, sock, nbefore, nsent]

prefvars == <<websocket, connected, everconnected, sock, wsout, uiprefs,
              changed_uiprefs, uipref_changed_timer, timers, nexttimer, now,
              noted, fires>>

pagevars == <<view, eventpane, lastcmd, wsin, nserial>>

connvars == <<registry, purged>>

servervars == <<binding, pending_outbox, inbox, dropped, log, connvars>>

buildvars == <<store, rows, readver, requests, replies, commits, outcomes>>

scopevars == <<availscopemap, availscopelist, scopeops>>

logvars == <<consolelog, uncaught>>

inputvars == <<issued, eventhistory, eventhistorypos, inputval, entered>>

tablevars == <<tableref, posts, answers, dbprops, nposts>>

nontablevars == <<plist, plistops, portlist, scopevars, logvars, inputvars>>

listvars == <<plist, plistops, portlist, scopevars, logvars, inputvars, tablevars>>

othervars == <<servervars, buildvars, listvars>>

vars == <<prefvars, pagevars, listvars, servervars, buildvars>>

\* toolpane_fill_pane_plist(seg): seg.map = {}, seg.list = []. An object is
\* kept as the sequence of its [key, val] entries in insertion order, the
\* order jQuery.each visits them in.
ListInit ==
    /\ plist = [map |-> <<>>, list |-> <<>>]
    /\ plistops = {}
    /\ portlist = {}
    /\ availscopemap = <<>>
    /\ availscopelist = <<>>
    /\ scopeops = {}
    /\ consolelog = {}
    /\ uncaught = {}
    /\ issued = <<>>
    /\ eventhistory = <<>>
    /\ eventhistorypos = 0
    /\ inputval = <<>>
    /\ entered = [n |-> 0, val |-> <<>>, conn |-> FALSE]

\* The sessions, scopes and locations of the fanout model.
Sessions == {"s1", "s2"}
Places == {<<"S1", "L1">>, <<"S2", "L1">>}
Unbound == <<"none", "none">>

\* No connection is attached, no session is bound and nothing was notified.
ServerInit ==
    /\ binding = [s \in Sessions |-> Unbound]
    /\ pending_outbox = [s \in Sessions |-> <<>>]
    /\ inbox = [s \in Sessions |-> <<>>]
    /\ dropped = [s \in Sessions |-> {}]
    /\ log = <<>>
    /\ registry = <<>>
    /\ purged = [s \in Sessions |-> {}]

\* The editors of the build page and the texts they type.
Editors == {"e1", "e2"}
EditTexts == {"a", "b"}
NoMsg == [kind |-> "none"]

\* A table row as update_prop builds it from a property the server handed
\* over: val is propref.val, text the textarea's content, warning the text
\* of the warning line ("" while the line is hidden).
Row(val) == [val |-> val, text |-> val, dirty |-> FALSE, warning |-> ""]

(***************************************************************************)
(* A property table of the build page (src/static/js/build.js): tableref   *)
(* with its proplist and propmap, and the rows' type, textareas, buttons   *)
(* and warning line.                                                       *)
(***************************************************************************)

\* The property ids of the table and the value types the type menu is used
\* with here: one type with a subpane and the type with none ('code',
\* 'value', 'move' and 'event' differ from 'text' in the names and the
\* number of their subpanes only).
PropIds == {"p1", "p2"}
Valtypes == {"text", "delete"}

\* The subpanes update_prop puts into editls for a value type.
Subkeys(valtype) ==
    IF valtype = "text" THEN {"text"}
    ELSE IF valtype = "code" THEN {"text"}
    ELSE {}

\* A property value: its type and the fields that are set.
Val(type, fields) == [type |-> type, fields |-> fields]

\* A property as the server hands it over.
Prop(id, val) == [id |-> id, val |-> val]

\* What the server keeps of a deleted property.
Tombstone == [type |-> "(deleted)", fields |-> <<>>]

\* editls as the textareas take it: subpane.val, or '' when it is not set.
editls(val) ==
    [k \in Subkeys(val.type) |->
        IF k \in DOMAIN val.fields THEN val.fields[k] ELSE ""]

\* if (!nocopy) propref.val = prop;
keep_original_never(nocopy, val, prop) == prop

keep_original(nocopy, val, prop) == IF nocopy THEN val ELSE prop

\* Revert has not acted on the row last.
NotUndone == {"none"}

\* The propref update_prop makes for a new row; obj tells this object from
\* an earlier propref of the same id. srv, changes and undone are history:
\* the property the server handed over last, the kinds of local change
\* since, and the kinds of change Revert has undone (NotUndone unless Revert
\* acted last).
Propref(prop, obj) ==
    [id |-> prop.id, val |-> prop, valtype |-> prop.val.type,
     areamap |-> editls(prop.val), dirty |-> FALSE, warning |-> "",
     obj |-> obj, srv |-> prop, changes |-> {}, undone |-> NotUndone]

\* The function f with key k set to v (tableref.propmap[prop.id] = propref).
propmap_set(f, k, v) == [x \in DOMAIN f \cup {k} |-> IF x = k THEN v ELSE f[x]]

\* delete tableref.propmap[prop.id]
propmap_delete(f, k) == [x \in DOMAIN f \ {k} |-> f[x]]

\* update_prop(tableref, prop, nocopy)
update_prop_table(t, prop, nocopy) ==
    IF prop.id \in DOMAIN t.propmap
    THEN LET propref == t.propmap[prop.id]
         IN  IF propref.valtype = prop.val.type
             THEN [t EXCEPT !.propmap[prop.id] =
                      [propref EXCEPT !.val = keep_original(nocopy, propref.val, prop),
                                      !.areamap = editls(prop.val)]]
             ELSE [t EXCEPT !.propmap[prop.id] =
                      [propref EXCEPT !.val = keep_original(nocopy, propref.val, prop),
                                      !.valtype = prop.val.type,
                                      !.areamap = editls(prop.val),
                                      !.warning = ""]]
    ELSE [proplist |-> Append(t.proplist, prop.id),
          propmap |-> propmap_set(t.propmap, prop.id, Propref(prop, t.nobj + 1)),
          nobj |-> t.nobj + 1]

\* proplist.splice(ix, 1) for ix = proplist.indexOf(id) >= 0
proplist_remove(ls, id) == SelectSeq(ls, LAMBDA x : x # id)

\* delete_prop(tableref, prop)
delete_prop_maponly(t, prop) ==
    IF prop.id \in DOMAIN t.propmap
    THEN [t EXCEPT !.propmap = propmap_delete(t.propmap, prop.id)]
    ELSE t

delete_prop(t, prop) ==
    IF prop.id \in DOMAIN t.propmap
    THEN [t EXCEPT !.propmap = propmap_delete(t.propmap, prop.id),
                   !.proplist = proplist_remove(t.proplist, prop.id)]
    ELSE t

\* The properties of the page at load time (db_props).
InitProp == Prop("p1", Val("text", [k \in {"text"} |-> "a"]))

\* build_proptable(tableel, proplist, tablekey) for db_props, and the
\* server that holds them.
TableInit ==
    /\ tableref = update_prop_table([proplist |-> <<>>, propmap |-> <<>>, nobj |-> 0],
                                    InitProp, FALSE)
    /\ posts = {}
    /\ answers = {}
    /\ dbprops = [id \in {"p1"} |-> InitProp.val]
    /\ nposts = 0

\* build_proptable(tableel, db_props, tablekey) at page load: every editor
\* shows the stored value.
BuildInit ==
    /\ store = [val |-> "v0", version |-> 0]
    /\ rows = [e \in Editors |-> Row("v0")]
    /\ readver = [e \in Editors |-> 0]
    /\ requests = [e \in Editors |-> NoMsg]
    /\ replies = [e \in Editors |-> NoMsg]
    /\ commits = <<>>
    /\ outcomes = <<>>
    /\ TableInit


(***************************************************************************)
(* The page: tool column, locale pane, focus pane (src/unnamed/part_002,   *)
(* the later revision of play.js).                                         *)
(***************************************************************************)

\* A field a message does not carry (obj.field === undefined).
Absent == "undefined"

\* The focus descriptions of the model: kind "undefined" (the message has no
\* focus field), "false", "desc" (a plain description), or the type of a
\* special focus list; arg is the description text or the portal object.
Focus(kind, arg) == [kind |-> kind, arg |-> arg]
FocusAbsent == Focus(Absent, "")
FocusFalse == Focus("false", "")
NoSpecial == Focus("none", "")

\* The portal objects the server shows; "undefined" is a 'portal' list that
\* lacks its portal object.
Portals == {"pA", "pB"}

\* What a portal object says of its destination: its instancing mode and
\* the scope (scid) it leads to. "pC" is shown only where the scope
\* selector is examined.
portal_instancing == [pA |-> "standard", pB |-> "solo", pC |-> "shared"]
portal_scid == [pA |-> 1, pB |-> 2, pC |-> 3]

\* The value of a <select> that has no option, and the scope selector
\* (flexselectel) of the 'portal' segment: the values of its options in
\* order and the value it has.
NoScid == 0
FlexSelect(options, value) == [options |-> options, value |-> value]
NoFlexSelect == FlexSelect(<<>>, NoScid)

\* A focus pane: what it shows and its slide animation ("down": sliding in,
\* "up": sliding out, "none": at rest). A pane has the class
\* FocusPaneAnimating while anim is not "none".
Pane(content, anim) == [content |-> content, anim |-> anim]

\* The page as build_page_structure leaves it:
\* toolpane_set_world('(In transition)', NBSP, '...'), empty panes, no
\* 'portal' or 'insttool' segment.
InitView ==
    [ title |-> "(In transition)",
      locale |-> <<"", "">>,
      populace |-> "",
      panes |-> <<>>,
      special_val |-> NoSpecial,
      special_editplist |-> FALSE,
      seg_portal |-> "null",
      flexselect |-> NoFlexSelect,
      seg_insttool |-> "null",
      min_portal |-> TRUE,
      min_insttool |-> TRUE,
      plist_selection |-> "null" ]

\* toolpane_set_world(world, scope, creator): obj.world is one value here.
toolpane_set_world(v, world) == [v EXCEPT !.title = world]

\* toolpane_plist_select(portid, useasfocus) for portid = null: the
\* selection is dropped.
toolpane_plist_select(v, portid) == [v EXCEPT !.plist_selection = "null"]

\* localepane_set_locale(desc, title)
localepane_set_locale(v, desc, title) == [v EXCEPT !.locale = <<desc, title>>]

\* localepane_set_populace(desc): a desc that is not truthy empties the pane.
localepane_set_populace(v, desc) ==
    [v EXCEPT !.populace = IF desc = "" THEN "" ELSE desc]

RECURSIVE SelectPanes(_, _)
\* The panes of ps whose anim is in keep, in document order.
SelectPanes(ps, keep) ==
    IF ps = <<>> THEN <<>>
    ELSE IF Head(ps).anim \in keep
         THEN <<Head(ps)>> \o SelectPanes(Tail(ps), keep)
         ELSE SelectPanes(Tail(ps), keep)

\* focuspane_clear(): the panes that are animating are removed; the panes
\* left get the class FocusPaneAnimating and slide out.
focuspane_clear_keep_animating(v) ==
    [v EXCEPT !.panes = [i \in 1..Len(v.panes) |->
        IF v.panes[i].anim = "none" THEN Pane(v.panes[i].content, "up")
        ELSE v.panes[i]]]

focuspane_clear(v) ==
    LET rest == SelectPanes(v.panes, {"none"})
    IN  [v EXCEPT !.panes = [i \in 1..Len(rest) |-> Pane(rest[i].content, "up")]]

\* focuspane_set(desc, extrals): the old panes are cleared and a new pane
\* slides in.
focuspane_set(v, content) ==
    LET c == focuspane_clear(v)
    IN  [c EXCEPT !.panes = Append(c.panes, Pane(content, "down"))]

\* focuspane_set_special(ls): the special value is recorded and the pane is
\* built for its type; an exception while building (a 'portal' list with no
\* portal object) clears the special value and shows the error text.
focuspane_set_special(v, ls) ==
    LET s == [v EXCEPT !.special_val = ls, !.special_editplist = FALSE]
    IN  IF ls.kind = "portal" /\ ls.arg = Absent
        THEN focuspane_set([s EXCEPT !.special_val = NoSpecial,
                                     !.special_editplist = FALSE],
                           Focus("error", ""))
        ELSE focuspane_set(s, ls)

\* focuspane_current_special_portal(): the portal object or "null".
focuspane_current_special_portal(v) ==
    IF v.special_val.kind = "portal" /\ v.special_val.arg # Absent
    THEN v.special_val.arg
    ELSE "null"

\* toolpane_remove_segment(key) for key = 'portal'
toolpane_remove_segment_portal(v) ==
    [v EXCEPT !.seg_portal = "null", !.flexselect = NoFlexSelect]

\* toolpane_portal_update(): the segment shows the focused portal. With no
\* portal the selector is left as it was; otherwise it is emptied, and for a
\* 'standard' portal filled with '*Original' (if availscopemap has no scope
\* of the portal's scid) and the scopes of availscopelist, and set to the
\* portal's scid. map and list are availscopemap and availscopelist as the
\* call finds them.
toolpane_portal_update(v, map, list) ==
    LET portal == focuspane_current_special_portal(v)
        scid == portal_scid[portal]
        original == IF \E i \in 1..Len(map) : map[i].key = scid
                    THEN <<>> ELSE <<scid>>
    IN  IF portal = "null" THEN [v EXCEPT !.seg_portal = "-"]
        ELSE [v EXCEPT !.seg_portal = portal,
                       !.flexselect =
                           IF portal_instancing[portal] = "standard"
                           THEN FlexSelect(original \o
                                    [i \in 1..Len(list) |-> list[i].id], scid)
                           ELSE NoFlexSelect]

\* toolpane_portal_addremove(): posts, removes or updates the 'portal'
\* segment; toolpane_build_segment fills a new segment through
\* toolpane_fill_pane_portal, which ends in toolpane_portal_update.
toolpane_portal_addremove_skip(v) == v

toolpane_portal_addremove(v) ==
    IF focuspane_current_special_portal(v) = "null"
    THEN IF v.seg_portal # "null" THEN toolpane_remove_segment_portal(v) ELSE v
    ELSE IF v.seg_portal = "null"
         THEN toolpane_portal_update([v EXCEPT !.min_portal = FALSE],
                                     availscopemap, availscopelist)
         ELSE toolpane_portal_update(v, availscopemap, availscopelist)

\* toolpane_insttool_set(desc): an empty desc removes the segment; otherwise
\* the segment is posted if needed and shows desc.
toolpane_insttool_set(v, desc) ==
    IF desc = ""
    THEN [v EXCEPT !.seg_insttool = "null"]
    ELSE IF v.seg_insttool = "null"
         THEN [v EXCEPT !.min_insttool = FALSE, !.seg_insttool = desc]
         ELSE [v EXCEPT !.seg_insttool = desc]

\* The focus part of cmd_update, run when obj.focus !== undefined.
update_focus(v, obj) ==
    LET s == [v EXCEPT !.special_val = NoSpecial, !.special_editplist = FALSE]
        f == IF obj.focus.kind = "false" THEN focuspane_clear(s)
             ELSE IF obj.focus.kind = "desc" THEN focuspane_set(s, obj.focus)
             ELSE focuspane_set_special(s, obj.focus)
    IN  toolpane_portal_addremove(f)

\* cmd_update(obj), written with every field tested, as the code does.
cmd_update_populace_always(v, obj) ==
    LET v1 == IF obj.world # Absent
              THEN toolpane_plist_select(toolpane_set_world(v, obj.world), "null")
              ELSE v
        v2 == IF obj.locale # Absent
              THEN localepane_set_locale(v1, obj.locale, obj.locale)
              ELSE v1
        v3 == localepane_set_populace(v2, IF obj.populace = Absent THEN ""
                                          ELSE obj.populace)
        v4 == IF obj.focus # FocusAbsent THEN update_focus(v3, obj) ELSE v3
    IN  IF obj.insttool # Absent THEN toolpane_insttool_set(v4, obj.insttool)
        ELSE v4

cmd_update(v, obj) ==
    LET v1 == IF obj.world # Absent
              THEN toolpane_plist_select(toolpane_set_world(v, obj.world), "null")
              ELSE v
        v2 == IF obj.locale # Absent
              THEN localepane_set_locale(v1, obj.locale, obj.locale)
              ELSE v1
        v3 == IF obj.populace # Absent
              THEN localepane_set_populace(v2, obj.populace)
              ELSE v2
        v4 == IF obj.focus # FocusAbsent THEN update_focus(v3, obj) ELSE v3
    IN  IF obj.insttool # Absent THEN toolpane_insttool_set(v4, obj.insttool)
        ELSE v4

\* cmd_clearfocus(obj)
cmd_clearfocus_keepseg(v, obj) ==
    focuspane_clear([v EXCEPT !.special_val = NoSpecial,
                              !.special_editplist = FALSE])

cmd_clearfocus(v, obj) ==
    toolpane_portal_addremove(
        focuspane_clear([v EXCEPT !.special_val = NoSpecial,
                                  !.special_editplist = FALSE]))

\* display_error(msg)
display_error(v, msg) ==
    focuspane_clear([v EXCEPT !.locale = <<"BlockError", msg>>,
                              !.populace = ""])

\* The messages of the model. Every message is a record of the same shape;
\* a field the message does not carry is Absent.
Msg(cmd, world, locale, populace, focus, insttool) ==
    [cmd |-> cmd, world |-> world, locale |-> locale, populace |-> populace,
     focus |-> focus, insttool |-> insttool]

FocusValues ==
    {FocusAbsent, FocusFalse, Focus("desc", "f1"), Focus("selfdesc", "")}
    \cup {Focus("portal", p) : p \in Portals \cup {Absent}}

UpdateMsgs ==
    {Msg("update", w, l, p, f, t) :
        w \in {Absent, "w1"}, l \in {Absent, "l1"}, p \in {Absent, "p1", ""},
        f \in FocusValues, t \in {Absent, "t1", ""}}

ClearfocusMsg == Msg("clearfocus", Absent, Absent, Absent, FocusAbsent, Absent)

ViewMsgs == UpdateMsgs \cup {ClearfocusMsg}

\* The portal ids and list positions the server uses.
PlistIds == {"p1", "p2", "p3"}
Listposes == 1..3

\* A portal object of the portal list, and the value false.
Portal(portid, listpos) == [portid |-> portid, listpos |-> listpos]
PFalse == Portal("false", 0)

\* An entry of an object: key and value.
Entry(key, val) == [key |-> key, val |-> val]

\* delete map[key]
map_delete(map, key) == SelectSeq(map, LAMBDA e : e.key # key)

\* map[key] = val: a key the object has keeps its place, a new key goes last.
map_set(map, key, val) ==
    IF \E i \in 1..Len(map) : map[i].key = key
    THEN [i \in 1..Len(map) |->
             IF map[i].key = key THEN Entry(key, val) ELSE map[i]]
    ELSE Append(map, Entry(key, val))

RECURSIVE plist_each(_, _)
\* jQuery.each(obj.map, ...) of cmd_updateplist, entry by entry.
plist_each(map, entries) ==
    IF entries = <<>> THEN map
    ELSE plist_each(IF Head(entries).val = PFalse
                    THEN map_delete(map, Head(entries).key)
                    ELSE map_set(map, Head(entries).key, Head(entries).val),
                    Tail(entries))

\* seg.map after the first half of cmd_updateplist(obj); an obj without a
\* map has no entries.
updateplist_map_noclear(seg, obj) == plist_each(seg.map, obj.map)

updateplist_map(seg, obj) ==
    plist_each(IF obj.clear THEN <<>> ELSE seg.map, obj.map)

\* The values of an object in jQuery.each order: seg.list before the sort.
map_values(map) == [i \in 1..Len(map) |-> map[i].val]

\* seg.list.sort(function(p1, p2) { return p1.listpos - p2.listpos; }): the
\* orders a sort may leave; entries that compare equal may land either way.
sort_listpos_unsorted(ls) == {ls}

sort_listpos(ls) ==
    {[i \in 1..Len(ls) |-> ls[f[i]]] :
        f \in {g \in [1..Len(ls) -> 1..Len(ls)] :
                 /\ \A i, j \in 1..Len(ls) : i # j => g[i] # g[j]
                 /\ \A i, j \in 1..Len(ls) :
                        i < j => ls[g[i]].listpos <= ls[g[j]].listpos}}

\* toolpane_plist_update(): an empty list drops the selection.
toolpane_plist_update(v, list) ==
    IF list = <<>> THEN [v EXCEPT !.plist_selection = "null"] ELSE v

\* What cmd_updateplist(obj) does to the entries of seg.map: "clear" (a
\* map with entries is emptied), "remove" (an entry is deleted), "replace"
\* (an entry gets a new value), "add" (a new key is set).
updateplist_ops(seg, obj) ==
    LET base == IF obj.clear THEN <<>> ELSE seg.map
        had(k) == \E i \in 1..Len(base) : base[i].key = k
    IN  (IF obj.clear /\ seg.map # <<>> THEN {"clear"} ELSE {})
        \cup {"remove" : i \in {j \in 1..Len(obj.map) :
                  obj.map[j].val = PFalse /\ had(obj.map[j].key)}}
        \cup {"replace" : i \in {j \in 1..Len(obj.map) :
                  obj.map[j].val # PFalse /\ had(obj.map[j].key)}}
        \cup {"add" : i \in {j \in 1..Len(obj.map) :
                  obj.map[j].val # PFalse /\ ~had(obj.map[j].key)}}

\* An updateplist message: clear and the entries of map in the order of the
\* message text.
PlistMsg(clear, map) == [cmd |-> "updateplist", clear |-> clear, map |-> map]

PlistEntries ==
    {Entry(k, PFalse) : k \in PlistIds}
    \cup {Entry(k, Portal(k, n)) : k \in PlistIds, n \in Listposes}

PlistMsgs ==
    {PlistMsg(c, <<>>) : c \in BOOLEAN}
    \cup {PlistMsg(c, <<e>>) : c \in BOOLEAN, e \in PlistEntries}
    \cup {PlistMsg(c, <<p[1], p[2]>>) : c \in BOOLEAN,
              p \in {q \in PlistEntries \X PlistEntries : q[1].key # q[2].key}}

\* The scopes the server offers: id, type ('glob', 'pers' or another) and
\* you (the personal scope of this player). The ids are numbered in their
\* order as strings.
ScopeIds == {1, 2, 3}
ScopeKinds == {<<"glob", FALSE>>, <<"pers", TRUE>>, <<"pers", FALSE>>,
               <<"grp", FALSE>>}
Scope(id, type, you) ==
    [id |-> id, type |-> type, you |-> you, sortkey |-> <<9, 0>>]
SFalse == Scope(0, "false", FALSE)

\* The hacky sorting key of cmd_updatescopes: '0_', '1_', '2_' + scope.id,
\* '3_' + scope.id, as the pair of its first character and the id that
\* follows the underscore (0 where none follows).
scope_sortkey_noyou(scope) ==
    IF scope.type = "glob" THEN <<0, 0>>
    ELSE IF scope.type = "pers" THEN <<2, scope.id>>
    ELSE <<3, scope.id>>

scope_sortkey(scope) ==
    IF scope.type = "glob" THEN <<0, 0>>
    ELSE IF scope.type = "pers" /\ scope.you THEN <<1, 0>>
    ELSE IF scope.type = "pers" THEN <<2, scope.id>>
    ELSE <<3, scope.id>>

\* p1.sortkey < p2.sortkey, the comparison of two such strings.
sortkey_less(k1, k2) == k1[1] < k2[1] \/ (k1[1] = k2[1] /\ k1[2] < k2[2])

RECURSIVE scopes_each(_, _)
\* jQuery.each(obj.map, ...) of cmd_updatescopes, entry by entry.
scopes_each(map, entries) ==
    IF entries = <<>> THEN map
    ELSE scopes_each(
             IF Head(entries).val = SFalse
             THEN map_delete(map, Head(entries).key)
             ELSE map_set(map, Head(entries).key,
                          [Head(entries).val EXCEPT
                              !.sortkey = scope_sortkey(Head(entries).val)]),
             Tail(entries))

\* availscopemap after the first half of cmd_updatescopes(obj).
updatescopes_map(map, obj) ==
    scopes_each(IF obj.clear THEN <<>> ELSE map, obj.map)

\* availscopelist.sort(...): the orders a sort by sortkey may leave.
sort_sortkey(ls) ==
    {[i \in 1..Len(ls) |-> ls[f[i]]] :
        f \in {g \in [1..Len(ls) -> 1..Len(ls)] :
                 /\ \A i, j \in 1..Len(ls) : i # j => g[i] # g[j]
                 /\ \A i, j \in 1..Len(ls) :
                        i < j => ~sortkey_less(ls[g[j]].sortkey,
                                               ls[g[i]].sortkey)}}

\* What cmd_updatescopes(obj) does to the entries of availscopemap, named
\* as for updateplist_ops.
updatescopes_ops(map, obj) ==
    LET base == IF obj.clear THEN <<>> ELSE map
        had(k) == \E i \in 1..Len(base) : base[i].key = k
    IN  (IF obj.clear /\ map # <<>> THEN {"clear"} ELSE {})
        \cup {"remove" : i \in {j \in 1..Len(obj.map) :
                  obj.map[j].val = SFalse /\ had(obj.map[j].key)}}
        \cup {"replace" : i \in {j \in 1..Len(obj.map) :
                  obj.map[j].val # SFalse /\ had(obj.map[j].key)}}
        \cup {"add" : i \in {j \in 1..Len(obj.map) :
                  obj.map[j].val # SFalse /\ ~had(obj.map[j].key)}}

\* An updatescopes message.
ScopesMsg(clear, map) == [cmd |-> "updatescopes", clear |-> clear, map |-> map]

ScopeEntries ==
    {Entry(k, SFalse) : k \in ScopeIds}
    \cup {Entry(k, Scope(k, t[1], t[2])) : k \in ScopeIds, t \in ScopeKinds}

ScopesMsgs ==
    {ScopesMsg(c, <<>>) : c \in BOOLEAN}
    \cup {ScopesMsg(c, <<e>>) : c \in BOOLEAN, e \in ScopeEntries}
    \cup {ScopesMsg(c, <<p[1], p[2]>>) : c \in BOOLEAN,
              p \in {q \in ScopeEntries \X ScopeEntries : q[1].key # q[2].key}}

\* An event-pane message: cmd is 'event', 'message' or 'error'; n numbers
\* the messages in the order the server sent them and stands for the text.
EvMsg(cmd, n) == [cmd |-> cmd, text |-> "text", n |-> n]

\* A line of the event pane: its class, its text and the number of the
\* message it shows (0 for a line the page wrote itself).
Line(cls, text, n) == [cls |-> cls, text |-> text, n |-> n]

\* eventpane_add(msg, extraclass): the line goes in before the input line,
\* that is after every other line; above EVENT_TRIM_LIMIT lines the pane is
\* cut to its last EVENT_TRIM_KEEP. (eventlogging is off, as it is at load.)
eventpane_add_prepend(pane, line) ==
    LET ls == <<line>> \o pane
    IN  IF Len(ls) > EVENT_TRIM_LIMIT
        THEN SubSeq(ls, Len(ls) - EVENT_TRIM_KEEP + 1, Len(ls))
        ELSE ls

eventpane_add_notrim(pane, line) == Append(pane, line)

eventpane_add(pane, line) ==
    LET ls == Append(pane, line)
    IN  IF Len(ls) > EVENT_TRIM_LIMIT
        THEN SubSeq(ls, Len(ls) - EVENT_TRIM_KEEP + 1, Len(ls))
        ELSE ls

\* cmd_event(obj); notify() marks nothing while uiprefs.notifications is
\* 'none', its default.
cmd_event(pane, obj) == eventpane_add(pane, Line("Event", obj.text, obj.n))

\* cmd_message(obj)
cmd_message(pane, obj) ==
    eventpane_add(pane, Line("Event EventMessage", obj.text, obj.n))

\* cmd_error(obj): 'Error: ' + obj.text
cmd_error(pane, obj) ==
    eventpane_add(pane, Line("Event EventError", "Error: " \o obj.text, obj.n))

\* The cmds command_table has a handler for.
command_table ==
    {"event", "update", "updateplist", "updatescopes", "clearfocus",
     "message", "error", "extendcookie"}

\* evhan_websocket_message(ev): the handler command_table names for the
\* message's cmd is run; a cmd it has none for is logged.
evhan_websocket_message(m) ==
    /\ IF m.cmd = "updateplist"
       THEN \E list \in sort_listpos(map_values(updateplist_map(plist, m))) :
                /\ plist' = [map |-> updateplist_map(plist, m), list |-> list]
                /\ plistops' = plistops \cup updateplist_ops(plist, m)
                /\ view' = toolpane_plist_update(view, list)
                /\ UNCHANGED <<portlist, scopevars>>
       ELSE IF m.cmd = "updatescopes"
       THEN \E list \in sort_sortkey(map_values(updatescopes_map(availscopemap, m))) :
                /\ availscopemap' = updatescopes_map(availscopemap, m)
                /\ availscopelist' = list
                /\ scopeops' = scopeops \cup updatescopes_ops(availscopemap, m)
                /\ view' = IF view.seg_portal # "null"
                           THEN toolpane_portal_update(
                                    view, updatescopes_map(availscopemap, m),
                                    list)
                           ELSE view
                /\ UNCHANGED <<plist, plistops, portlist>>
       ELSE /\ view' = IF m.cmd = "update" THEN cmd_update(view, m)
                       ELSE IF m.cmd = "clearfocus" THEN cmd_clearfocus(view, m)
                       ELSE view
            /\ UNCHANGED <<plist, plistops, portlist, scopevars>>
    /\ consolelog' = IF m.cmd \in command_table THEN consolelog
                     ELSE consolelog \cup {m.cmd}
    /\ UNCHANGED <<uncaught, inputvars, tablevars>>
    /\ eventpane' = IF m.cmd = "event" THEN cmd_event(eventpane, m)
                    ELSE IF m.cmd = "message" THEN cmd_message(eventpane, m)
                    ELSE IF m.cmd = "error" THEN cmd_error(eventpane, m)
                    ELSE eventpane
    /\ lastcmd' = m.cmd
    /\ UNCHANGED <<prefvars, servervars, buildvars>>

\* The server sends a message about the page and the page handles it.
HandleMessage ==
    /\ \E m \in ViewMsgs : evhan_websocket_message(m)
    /\ UNCHANGED <<wsin, nserial>>

\* slideDown(200, ...) of a pane ends: the pane loses FocusPaneAnimating.
SlideDownDone ==
    \E i \in 1..Len(view.panes) :
        /\ view.panes[i].anim = "down"
        /\ view' = [view EXCEPT !.panes[i].anim = "none"]
        /\ UNCHANGED <<othervars, prefvars, eventpane, lastcmd, wsin, nserial>>

\* slideUp(200, ...) of the panes focuspane_clear slid out ends: el.remove().
SlideUpDone ==
    /\ \E i \in 1..Len(view.panes) : view.panes[i].anim = "up"
    /\ view' = [view EXCEPT !.panes = SelectPanes(view.panes, {"none", "down"})]
    /\ UNCHANGED <<othervars, prefvars, eventpane, lastcmd, wsin, nserial>>

Init ==
    /\ websocket = "ws"
    /\ sock = "open"
    /\ connected = TRUE
    /\ everconnected = TRUE
    /\ wsout = <<>>
    /\ uiprefs = [k \in PrefKeys |->
                    IF k = "leftright_percent" THEN LEFTRIGHT_DEFAULT
                    ELSE UPDOWN_DEFAULT]
    /\ changed_uiprefs = {}
    /\ uipref_changed_timer = 0
    /\ timers = {}
    /\ nexttimer = 1
    /\ now = 0
    /\ noted = <<>>
    /\ fires = <<>>
    /\ view = InitView
    /\ eventpane = <<>>
    /\ lastcmd = "none"
    /\ ListInit
    /\ ServerInit
    /\ BuildInit
    /\ wsin = <<>>
    /\ nserial = 0

Next ==
    \/ HandleMessage
    \/ SlideDownDone
    \/ SlideUpDone

Spec == Init /\ [][Next]_vars

(***************************************************************************)
(* The portal list of the tool column: the server sends updateplist        *)
(* messages of any content.                                                *)
(***************************************************************************)

HandlePlist ==
    /\ \E m \in PlistMsgs : evhan_websocket_message(m)
    /\ UNCHANGED <<wsin, nserial>>

NextPlist == HandlePlist

SpecPlist == Init /\ [][NextPlist]_vars

(***************************************************************************)
(* The available scopes: the server sends updatescopes messages of any     *)
(* content.                                                                *)
(***************************************************************************)

HandleScopes ==
    /\ \E m \in ScopesMsgs : evhan_websocket_message(m)
    /\ UNCHANGED <<wsin, nserial>>

NextScopes == HandleScopes

SpecScopes == Init /\ [][NextScopes]_vars

(***************************************************************************)
(* The dispatcher of src/static/js/play.js, the revision whose             *)
(* command_table has no updateplist and updatescopes and whose handlers    *)
(* for update and clearfocus touch the panes only.                         *)
(***************************************************************************)

\* command_table of src/static/js/play.js
command_table_play ==
    {"event", "update", "clearfocus", "message", "error", "extendcookie"}

\* cmd_update(obj) of src/static/js/play.js; the model's messages have
\* focusspecial set exactly when focus is a special list.
cmd_update_play(v, obj) ==
    LET v1 == IF obj.world # Absent THEN toolpane_set_world(v, obj.world) ELSE v
        v2 == IF obj.locale # Absent
              THEN localepane_set_locale(v1, obj.locale, obj.locale)
              ELSE v1
        v3 == IF obj.populace # Absent
              THEN localepane_set_populace(v2, obj.populace)
              ELSE v2
    IN  IF obj.focus = FocusAbsent THEN v3
        ELSE IF obj.focus.kind = "false" THEN focuspane_clear(v3)
        ELSE IF obj.focus.kind = "desc" THEN focuspane_set(v3, obj.focus)
        ELSE focuspane_set_special(v3, obj.focus)

\* cmd_clearfocus(obj) of src/static/js/play.js
cmd_clearfocus_play(v, obj) == focuspane_clear(v)

\* evhan_websocket_message(ev) of src/static/js/play.js: a cmd the table
\* has no handler for is logged, and then func(obj) is called all the same;
\* calling undefined throws a TypeError that nothing catches.
evhan_websocket_message_play(m) ==
    /\ view' = IF m.cmd = "update" THEN cmd_update_play(view, m)
               ELSE IF m.cmd = "clearfocus" THEN cmd_clearfocus_play(view, m)
               ELSE view
    /\ eventpane' = IF m.cmd = "event" THEN cmd_event(eventpane, m)
                    ELSE IF m.cmd = "message" THEN cmd_message(eventpane, m)
                    ELSE IF m.cmd = "error" THEN cmd_error(eventpane, m)
                    ELSE eventpane
    /\ consolelog' = IF m.cmd \in command_table_play THEN consolelog
                     ELSE consolelog \cup {m.cmd}
    /\ uncaught' = IF m.cmd \in command_table_play THEN uncaught
                   ELSE uncaught \cup {m.cmd}
    /\ UNCHANGED <<inputvars, tablevars>>
    /\ lastcmd' = m.cmd
    /\ UNCHANGED <<plist, plistops, portlist, scopevars>>
    /\ UNCHANGED <<prefvars, servervars, buildvars>>

\* The cmds the server may send that no command_table knows.
UnknownCmds == {"bogus"}

\* The server sends a message: one for the event pane, one for the focus
\* pane, or one with a cmd the page does not know.
ServerSendAny ==
    \E m \in {EvMsg(c, nserial + 1) : c \in {"event", "message", "error"}}
             \cup {EvMsg(c, nserial + 1) : c \in UnknownCmds}
             \cup {ClearfocusMsg,
                   Msg("update", "w1", Absent, Absent, Focus("desc", "f1"), Absent)} :
        /\ nserial < MaxEvents
        /\ nserial' = nserial + 1
        /\ wsin' = Append(wsin, m)
        /\ UNCHANGED <<prefvars, othervars, view, eventpane, lastcmd>>

\* onmessage fires for the oldest message the websocket holds.
DeliverPlay ==
    /\ wsin # <<>>
    /\ evhan_websocket_message_play(Head(wsin))
    /\ wsin' = Tail(wsin)
    /\ UNCHANGED nserial

NextDispatch ==
    \/ ServerSendAny
    \/ DeliverPlay

SpecDispatch == Init /\ [][NextDispatch]_vars

(***************************************************************************)
(* The player's portal list on the server (spec.md 3, PortalListEntry) and *)
(* the updateplist messages that carry its changes. The server code is not *)
(* among the sources: an added portal gets a list position no entry of the *)
(* list has, entries are never renumbered.                                 *)
(***************************************************************************)

\* The portal list as the entries of an updateplist map, in the order seq
\* (a sequence of the list's portals) gives.
portlist_entries(seq) == [i \in 1..Len(seq) |-> Entry(seq[i].portid, seq[i])]

\* The orders a set of portals can be written in.
portlist_orders(ps) ==
    {seq \in [1..Cardinality(ps) -> ps] :
        \A i, j \in 1..Cardinality(ps) : i # j => seq[i] # seq[j]}

\* A portal is added to the list.
portlist_add ==
    \E id \in PlistIds, pos \in Listposes :
        /\ nserial < MaxPlistOps
        /\ \A p \in portlist : p.portid # id /\ p.listpos # pos
        /\ portlist' = portlist \cup {Portal(id, pos)}
        /\ wsin' = Append(wsin, PlistMsg(FALSE, <<Entry(id, Portal(id, pos))>>))
        /\ nserial' = nserial + 1
        /\ UNCHANGED <<plist, plistops, scopevars, logvars, inputvars, tablevars, view, eventpane, lastcmd>>
        /\ UNCHANGED <<prefvars, servervars, buildvars>>

\* A portal is deleted from the list.
portlist_delete ==
    \E p \in portlist :
        /\ nserial < MaxPlistOps
        /\ portlist' = portlist \ {p}
        /\ wsin' = Append(wsin, PlistMsg(FALSE, <<Entry(p.portid, PFalse)>>))
        /\ nserial' = nserial + 1
        /\ UNCHANGED <<plist, plistops, scopevars, logvars, inputvars, tablevars, view, eventpane, lastcmd>>
        /\ UNCHANGED <<prefvars, servervars, buildvars>>

\* The whole list is sent, in any order of its entries, with clear set.
portlist_send_all ==
    \E seq \in portlist_orders(portlist) :
        /\ nserial < MaxPlistOps
        /\ wsin' = Append(wsin, PlistMsg(TRUE, portlist_entries(seq)))
        /\ nserial' = nserial + 1
        /\ UNCHANGED <<plist, plistops, portlist, scopevars, logvars, inputvars, tablevars, view, eventpane,
                       lastcmd>>
        /\ UNCHANGED <<prefvars, servervars, buildvars>>

\* onmessage fires for the oldest message the websocket holds.
DeliverMessage ==
    /\ wsin # <<>>
    /\ evhan_websocket_message(Head(wsin))
    /\ wsin' = Tail(wsin)
    /\ UNCHANGED nserial

NextPortlist ==
    \/ portlist_add
    \/ portlist_delete
    \/ portlist_send_all
    \/ DeliverMessage

SpecPortlist == Init /\ [][NextPortlist]_vars

(***************************************************************************)
(* The event pane: the server's event, message and error messages reach    *)
(* the websocket in the order sent; onmessage runs once per message, in    *)
(* that order.                                                             *)
(***************************************************************************)

\* The server sends the next event-pane message.
ServerSendEvent ==
    \E cmd \in {"event", "message", "error"} :
        /\ nserial < MaxEvents + (IF nserial >= EVENT_TRIM_LIMIT - 1
                                  THEN EVENT_TRIM_LIMIT - 1 ELSE 0)
        /\ nserial' = nserial + 1
        /\ wsin' = Append(wsin, EvMsg(cmd, nserial + 1))
        /\ UNCHANGED <<othervars, prefvars, view, eventpane, lastcmd>>

\* onmessage fires for the oldest message the websocket holds.
DeliverEvent ==
    /\ wsin # <<>>
    /\ evhan_websocket_message(Head(wsin))
    /\ wsin' = Tail(wsin)
    /\ UNCHANGED nserial

\* The page starts with an empty event pane, or with one that already shows
\* EVENT_TRIM_LIMIT - 1 events.
InitEvents ==
    /\ websocket = "ws"
    /\ sock = "open"
    /\ connected = TRUE
    /\ everconnected = TRUE
    /\ wsout = <<>>
    /\ uiprefs = [k \in PrefKeys |->
                    IF k = "leftright_percent" THEN LEFTRIGHT_DEFAULT
                    ELSE UPDOWN_DEFAULT]
    /\ changed_uiprefs = {}
    /\ uipref_changed_timer = 0
    /\ timers = {}
    /\ nexttimer = 1
    /\ now = 0
    /\ noted = <<>>
    /\ fires = <<>>
    /\ view = InitView
    /\ lastcmd = "none"
    /\ ListInit
    /\ ServerInit
    /\ BuildInit
    /\ wsin = <<>>
    /\ \E k \in {0, EVENT_TRIM_LIMIT - 1} :
           /\ nserial = k
           /\ eventpane = [i \in 1..k |-> Line("Event", "text", i)]

NextEvents ==
    \/ ServerSendEvent
    \/ DeliverEvent

SpecEvents == InitEvents /\ [][NextEvents]_vars

(***************************************************************************)
(* The uiprefs hysteresis and the websocket (src/static/js/play.js).       *)
(***************************************************************************)

\* delay_func(timeout, func): window.setTimeout(func, timeout*1000); the
\* timeouts of this model all run send_uipref_changed.
delay_func(pending, id, timeout) ==
    pending \cup {[id |-> id, due |-> now + timeout]}

\* cancel_delayed_func(val): window.clearTimeout(val)
cancel_delayed_func(pending, val) ==
    {t \in pending : t.id # val}

\* The timer part of note_uipref_changed:
\*   if (uipref_changed_timer) cancel_delayed_func(uipref_changed_timer);
\*   uipref_changed_timer = delay_func(2, send_uipref_changed);
note_timers_nocancel(pending, old, id) ==
    delay_func(pending, id, UIPREF_DELAY)

note_timers(pending, old, id) ==
    delay_func(IF old # 0 THEN cancel_delayed_func(pending, old) ELSE pending,
               id, UIPREF_DELAY)

\* note_uipref_changed(key), called right after uiprefs[key] was set to val.
note_uipref_changed(key, val) ==
    /\ changed_uiprefs' = changed_uiprefs \cup {key}
    /\ timers' = note_timers(timers, uipref_changed_timer, nexttimer)
    /\ uipref_changed_timer' = nexttimer
    /\ nexttimer' = nexttimer + 1
    /\ noted' = Append(noted, [t |-> now, key |-> key, val |-> val])

\* Math.round(percent) after the clamping of handle_*_doneresize; the
\* percentages of the model are whole numbers.
clamp_percent(percent) ==
    IF percent < PERCENT_MIN THEN PERCENT_MIN
    ELSE IF percent > PERCENT_MAX THEN PERCENT_MAX
    ELSE percent

handle_leftright_doneresize ==
    \E percent \in ResizePercents :
        /\ Len(noted) < MaxChanges
        /\ uiprefs' = [uiprefs EXCEPT !["leftright_percent"] = clamp_percent(percent)]
        /\ note_uipref_changed("leftright_percent", clamp_percent(percent))
        /\ UNCHANGED <<othervars, websocket, connected, everconnected, sock, wsout, now,
                       view, eventpane, lastcmd, wsin, nserial, fires>>

handle_updown_doneresize ==
    \E percent \in ResizePercents :
        /\ Len(noted) < MaxChanges
        /\ uiprefs' = [uiprefs EXCEPT !["updown_percent"] = clamp_percent(percent)]
        /\ note_uipref_changed("updown_percent", clamp_percent(percent))
        /\ UNCHANGED <<othervars, websocket, connected, everconnected, sock, wsout, now,
                       view, eventpane, lastcmd, wsin, nserial, fires>>

\* websocket_send_json(obj): the pair <<wsout', eventpane'>>
websocket_send_json_always(obj) == <<Append(wsout, obj), eventpane>>

websocket_send_json(obj) ==
    IF ~connected
    THEN <<wsout, eventpane_add(eventpane,
                  Line("Event EventError",
                       "Error: You are not connected to the server.", 0))>>
    ELSE <<Append(wsout, obj), eventpane>>

\* A line of text is the sequence of its characters. What the user enters
\* with the input line in the specifications about the session.
InputLines == {<<":", "w">>, <<"h", "i">>}

RECURSIVE ltrim(_)
\* jQuery.trim(val): the white space at both ends is taken off.
ltrim(val) == IF val # <<>> /\ Head(val) = " " THEN ltrim(Tail(val)) ELSE val

RECURSIVE rtrim(_)
rtrim(val) ==
    IF val # <<>> /\ val[Len(val)] = " " THEN rtrim(SubSeq(val, 1, Len(val) - 1))
    ELSE val

trim(val) == rtrim(ltrim(val))

\* The command submit_line_input makes of a trimmed line that is not empty.
line_command_say(val) == [cmd |-> "say", text |-> val]

line_command(val) ==
    IF Head(val) = ":" THEN [cmd |-> "pose", text |-> trim(Tail(val))]
    ELSE IF Head(val) = "/" THEN [cmd |-> "meta", text |-> trim(Tail(val))]
    ELSE [cmd |-> "say", text |-> val]

\* eventhistory after submit_line_input has stored the trimmed line val:
\* a line that is blank or equal to the last entry is not stored, and the
\* oldest entry goes when there are more than HISTORY_MAX.
history_push(hist, val) ==
    IF val # <<>> /\ (hist = <<>> \/ val # hist[Len(hist)])
    THEN IF Len(hist) + 1 > HISTORY_MAX THEN Tail(Append(hist, val))
         ELSE Append(hist, val)
    ELSE hist

\* submit_line_input(rawval): the whole function, for a line of the input
\* field.
submit_line(rawval) ==
    LET val == trim(rawval)
        hist == history_push(eventhistory, val)
        res == IF val # <<>> THEN websocket_send_json(line_command(val))
               ELSE <<wsout, eventpane>>
    IN  /\ eventhistory' = hist
        /\ eventhistorypos' = IF val # <<>> THEN Len(hist) ELSE eventhistorypos
        /\ inputval' = <<>>
        /\ wsout' = res[1]
        /\ eventpane' = res[2]
        /\ issued' = IF val # <<>>
                     THEN Append(issued, [obj |-> line_command(val), conn |-> connected])
                     ELSE issued
        /\ entered' = [n |-> entered.n + 1, val |-> rawval, conn |-> connected]
        /\ UNCHANGED <<plist, plistops, portlist, scopevars, logvars, tablevars>>
        /\ UNCHANGED <<servervars, buildvars, websocket, connected, everconnected,
                       sock, uiprefs, changed_uiprefs, uipref_changed_timer,
                       timers, nexttimer, now, view, lastcmd, wsin, nserial,
                       noted, fires>>

\* evhan_doc_keypress gets Return: submit_line_input(inputel.val()), the
\* user having typed one of InputLines.
submit_line_input ==
    \E val \in InputLines :
        /\ Len(issued) < MaxCommands
        /\ submit_line(val)

(***************************************************************************)
(* The selection of the portal list: the user clicks entries while the     *)
(* server changes the list one portal at a time.                           *)
(***************************************************************************)

\* The updateplist messages with at most one entry, every portal at the
\* list position of its own.
SelectEntries ==
    {Entry(k, PFalse) : k \in PlistIds}
    \cup {Entry("p1", Portal("p1", 1)), Entry("p2", Portal("p2", 2)),
          Entry("p3", Portal("p3", 3))}

SelectMsgs ==
    {PlistMsg(c, <<>>) : c \in BOOLEAN}
    \cup {PlistMsg(c, <<e>>) : c \in BOOLEAN, e \in SelectEntries}

\* toolpane_plist_select(portid, useasfocus) for a portid: seg.selection
\* after the call.
toolpane_plist_select_portid(v, seg, portid) ==
    [v EXCEPT !.plist_selection =
        IF \E i \in 1..Len(seg.map) : seg.map[i].key = portid
        THEN portid ELSE "null"]

\* The click handler toolpane_plist_update gives every entry of the list:
\* toolpane_plist_select(ev.data.portid, true). With an editable portlist
\* in focus and its editor open nothing is sent.
plist_entry_click ==
    \E i \in 1..Len(plist.list), visible \in BOOLEAN :
        LET portid == plist.list[i].portid
            res == websocket_send_json([cmd |-> "plistselect", portid |-> portid])
        IN  /\ Len(wsout) < MaxClicks
            /\ view' = toolpane_plist_select_portid(view, plist, portid)
            /\ IF view.special_editplist /\ visible
               THEN UNCHANGED <<wsout, eventpane>>
               ELSE /\ wsout' = res[1]
                    /\ eventpane' = res[2]
            /\ UNCHANGED <<servervars, buildvars, listvars, websocket, connected,
                           everconnected, sock, uiprefs, changed_uiprefs,
                           uipref_changed_timer, timers, nexttimer, now, lastcmd,
                           wsin, nserial, noted, fires>>

HandleSelectPlist ==
    /\ \E m \in SelectMsgs : evhan_websocket_message(m)
    /\ UNCHANGED <<wsin, nserial>>

NextSelect ==
    \/ HandleSelectPlist
    \/ plist_entry_click

SpecSelect == Init /\ [][NextSelect]_vars

\* The map send_uipref_changed builds:
\*   for (var key in changed_uiprefs) obj[key] = uiprefs[key];
uipref_map_all(changed, prefs) == prefs

uipref_map(changed, prefs) == [k \in changed |-> prefs[k]]

\* The keys send_uipref_changed leaves in changed_uiprefs.
send_uipref_keys_dropped(conn, changed) == {}

send_uipref_keys(conn, changed) ==
    IF ~conn THEN changed ELSE {}

\* send_uipref_changed(), run by the browser when timeout tm is due. A
\* timeout never runs early; it may run late.
send_uipref_changed_forgets ==
    \E tm \in timers :
        /\ now >= tm.due
        /\ timers' = timers \ {tm}
        /\ IF ~connected
           THEN UNCHANGED <<wsout, eventpane>>
           ELSE LET obj == uipref_map(changed_uiprefs, uiprefs)
                    res == websocket_send_json([cmd |-> "uiprefs", map |-> obj])
                IN  /\ wsout' = res[1]
                    /\ eventpane' = res[2]
        /\ changed_uiprefs' = {}
        /\ fires' = Append(fires, [t |-> now, upto |-> Len(noted),
                                   conn |-> connected, sock |-> sock,
                                   nbefore |-> Len(wsout),
                                   nsent |-> Len(wsout')])
        /\ UNCHANGED <<othervars, websocket, connected, everconnected, sock, uiprefs,
                       uipref_changed_timer, nexttimer, now,
                       view, lastcmd, wsin, nserial, noted>>

send_uipref_changed ==
    \E tm \in timers :
        /\ now >= tm.due
        /\ timers' = timers \ {tm}
        /\ IF ~connected
           THEN UNCHANGED <<wsout, eventpane>>
           ELSE LET obj == uipref_map(changed_uiprefs, uiprefs)
                    res == websocket_send_json([cmd |-> "uiprefs", map |-> obj])
                IN  /\ wsout' = res[1]
                    /\ eventpane' = res[2]
        /\ changed_uiprefs' = send_uipref_keys(connected, changed_uiprefs)
        /\ fires' = Append(fires, [t |-> now, upto |-> Len(noted),
                                   conn |-> connected, sock |-> sock,
                                   nbefore |-> Len(wsout),
                                   nsent |-> Len(wsout')])
        /\ UNCHANGED <<othervars, websocket, connected, everconnected, sock, uiprefs,
                       uipref_changed_timer, nexttimer, now,
                       view, lastcmd, wsin, nserial, noted>>

evhan_websocket_open ==
    /\ sock = "connecting"
    /\ sock' = "open"
    /\ connected' = TRUE
    /\ everconnected' = TRUE
    /\ UNCHANGED <<othervars, websocket, wsout, uiprefs, changed_uiprefs,
                   uipref_changed_timer, timers, nexttimer, now,
                   view, eventpane, lastcmd, wsin, nserial, noted, fires>>

evhan_websocket_close_connected ==
    /\ sock \in {"connecting", "open"}
    /\ sock' = "closed"
    /\ websocket' = "null"
    /\ view' = display_error(view, "The connection to the server was lost.")
    /\ UNCHANGED <<othervars, connected, everconnected, wsout, uiprefs,
                   changed_uiprefs, uipref_changed_timer, timers, nexttimer, now,
                   eventpane, lastcmd, wsin, nserial, noted, fires>>

evhan_websocket_close ==
    /\ sock \in {"connecting", "open"}
    /\ sock' = "closed"
    /\ websocket' = "null"
    /\ connected' = FALSE
    /\ view' = IF ~everconnected
               THEN display_error(view, "The connection to the server could not be opened.")
               ELSE display_error(view, "The connection to the server was lost.")
    /\ UNCHANGED <<othervars, everconnected, wsout, uiprefs, changed_uiprefs,
                   uipref_changed_timer, timers, nexttimer, now, eventpane,
                   lastcmd, wsin, nserial, noted, fires>>

\* The page while the connection lives and after it is lost: messages are
\* handled while the socket is open.
HandleOpenMessage ==
    /\ sock = "open"
    /\ HandleMessage

NextFocus ==
    \/ HandleOpenMessage
    \/ SlideDownDone
    \/ SlideUpDone
    \/ evhan_websocket_close

SpecFocus == Init /\ [][NextFocus]_vars

\* One second passes.
Tick ==
    /\ now < MaxTime
    /\ now' = now + 1
    /\ UNCHANGED <<othervars, websocket, connected, everconnected, sock, wsout, uiprefs,
                   changed_uiprefs, uipref_changed_timer, timers, nexttimer,
                   view, eventpane, lastcmd, wsin, nserial, noted, fires>>

\* The state after the page-ready handler: collate_uiprefs,
\* build_page_structure, setup_event_handlers, open_websocket.
InitPrefs ==
    /\ websocket = "ws"
    /\ sock = "connecting"
    /\ connected = FALSE
    /\ everconnected = FALSE
    /\ wsout = <<>>
    /\ uiprefs = [k \in PrefKeys |->
                    IF k = "leftright_percent" THEN LEFTRIGHT_DEFAULT
                    ELSE UPDOWN_DEFAULT]
    /\ changed_uiprefs = {}
    /\ uipref_changed_timer = 0
    /\ timers = {}
    /\ nexttimer = 1
    /\ now = 0
    /\ view = InitView
    /\ eventpane = <<>>
    /\ lastcmd = "none"
    /\ ListInit
    /\ ServerInit
    /\ BuildInit
    /\ wsin = <<>>
    /\ nserial = 0
    /\ noted = <<>>
    /\ fires = <<>>

NextPrefs ==
    \/ handle_leftright_doneresize
    \/ handle_updown_doneresize
    \/ send_uipref_changed
    \/ evhan_websocket_open
    \/ evhan_websocket_close
    \/ Tick

SpecPrefs == InitPrefs /\ [][NextPrefs]_vars

(***************************************************************************)
(* Entering and copying a portal: the focus pane shows portals of the      *)
(* three instancing modes, the scopes the player may choose change, and    *)
(* the user works the scope selector and clicks the two links.             *)
(***************************************************************************)

PortalNames == DOMAIN portal_instancing

\* The update messages that change the focus only, and the updatescopes
\* messages that add or remove one scope.
PortalFocusMsgs ==
    {Msg("update", Absent, Absent, Absent, f, Absent) :
        f \in {FocusFalse, Focus("desc", "f1")}
              \cup {Focus("portal", p) : p \in PortalNames}}

PortalScopesMsgs ==
    {ScopesMsg(FALSE, <<e>>) :
        e \in {Entry(1, SFalse), Entry(1, Scope(1, "glob", FALSE)),
               Entry(2, Scope(2, "pers", TRUE))}}

\* The message the click handlers of the enter link and of the copy link
\* build: { cmd:'action', action:target }, with the selector's value as scid
\* if the portal is 'standard', the 'portal' segment is posted, and the
\* value is not empty and not the portal's own scid.
portal_click_msg_any(target, portal, v) ==
    LET scid == v.flexselect.value
    IN  IF v.seg_portal # "null" /\ scid # NoScid /\ scid # portal_scid[portal]
        THEN [cmd |-> "action", action |-> target, scid |-> scid]
        ELSE [cmd |-> "action", action |-> target]

portal_click_msg(target, portal, v) ==
    LET scid == v.flexselect.value
    IN  IF /\ portal_instancing[portal] = "standard"
           /\ v.seg_portal # "null"
           /\ scid # NoScid
           /\ scid # portal_scid[portal]
        THEN [cmd |-> "action", action |-> target, scid |-> scid]
        ELSE [cmd |-> "action", action |-> target]

\* A click either sends a command or writes an error line.
PortalClickBudget == Len(wsout) + Len(eventpane) < MaxClicks

\* The click handler of the enter link of a portal pane; the handler keeps
\* the portal object its pane was built for (ev.data.portal), and a pane
\* that slides out is still on the page.
enter_portal_click ==
    \E i \in 1..Len(view.panes) :
        LET portal == view.panes[i].content.arg
            res == websocket_send_json(
                       portal_click_msg(<<"enter", portal>>, portal, view))
        IN  /\ view.panes[i].content.kind = "portal"
            /\ PortalClickBudget
            /\ wsout' = res[1]
            /\ eventpane' = res[2]
            /\ UNCHANGED <<servervars, buildvars, listvars, websocket, connected,
                           everconnected, sock, uiprefs, changed_uiprefs,
                           uipref_changed_timer, timers, nexttimer, now, view,
                           lastcmd, wsin, nserial, noted, fires>>

\* The click handler of the copy link of the 'portal' segment: the portal
\* is the one in focus now, and with none in focus nothing is sent. Every
\* portal of the model is copyable, so the link is shown.
copy_portal_click ==
    LET portal == focuspane_current_special_portal(view)
        res == websocket_send_json(
                   portal_click_msg(<<"copy", portal>>, portal, view))
    IN  /\ view.seg_portal # "null"
        /\ PortalClickBudget
        /\ IF portal = "null"
           THEN UNCHANGED <<wsout, eventpane>>
           ELSE /\ wsout' = res[1]
                /\ eventpane' = res[2]
        /\ UNCHANGED <<servervars, buildvars, listvars, websocket, connected,
                       everconnected, sock, uiprefs, changed_uiprefs,
                       uipref_changed_timer, timers, nexttimer, now, view,
                       lastcmd, wsin, nserial, noted, fires>>

\* The user picks an option of the scope selector.
flexselect_change ==
    \E i \in 1..Len(view.flexselect.options) :
        /\ view.seg_portal # "null"
        /\ view' = [view EXCEPT !.flexselect.value = view.flexselect.options[i]]
        /\ UNCHANGED <<prefvars, servervars, buildvars, listvars, eventpane,
                       lastcmd, wsin, nserial>>

HandlePortalMessage ==
    /\ sock = "open"
    /\ \E m \in PortalFocusMsgs \cup PortalScopesMsgs : evhan_websocket_message(m)
    /\ UNCHANGED <<wsin, nserial>>

NextPortal ==
    \/ evhan_websocket_open
    \/ HandlePortalMessage
    \/ SlideDownDone
    \/ SlideUpDone
    \/ flexselect_change
    \/ enter_portal_click
    \/ copy_portal_click
    \/ evhan_websocket_close

SpecPortal == InitPrefs /\ [][NextPortal]_vars

\* The connection flags from the page-ready handler on: the websocket opens
\* and closes while both senders of the page, the input line and the
\* uiprefs timer, run.
ConnBudget == Len(noted) + Len(issued) < MaxConnOps

NextConn ==
    \/ ConnBudget /\ handle_leftright_doneresize
    \/ ConnBudget /\ handle_updown_doneresize
    \/ send_uipref_changed
    \/ ConnBudget /\ submit_line_input
    \/ evhan_websocket_open
    \/ evhan_websocket_close
    \/ Tick

SpecConn == InitPrefs /\ [][NextConn]_vars

\* The same page with the scheduling of the browser: time passes and a
\* timeout that is due is run. The user and the network are under no
\* obligation: no preference change and no open or close of the websocket
\* has to happen. A preference is changed early enough for its timeout to
\* fall within the time modelled.
TimerInRange == now + UIPREF_DELAY <= MaxTime

NextLive ==
    \/ ConnBudget /\ TimerInRange /\ handle_leftright_doneresize
    \/ ConnBudget /\ TimerInRange /\ handle_updown_doneresize
    \/ send_uipref_changed
    \/ evhan_websocket_open
    \/ evhan_websocket_close
    \/ Tick

SpecLive ==
    /\ InitPrefs
    /\ [][NextLive]_vars
    /\ WF_vars(Tick)
    /\ WF_vars(send_uipref_changed)

(***************************************************************************)
(* The input line and its command history (src/static/js/play.js): the     *)
(* user types into the field, walks the history with Up and Down and       *)
(* enters lines, while the websocket is open and after it has closed.      *)
(***************************************************************************)

\* What the user types into the field.
TypedLines ==
    {<<" ">>, <<" ", "a">>, <<"b">>, <<":", " ", "w">>, <<"/", "h", " ">>}

\* A history the page has after HISTORY_MAX - 1 lines were entered, no two
\* in a row the same.
LongHistory ==
    [i \in 1..(HISTORY_MAX - 1) |-> IF i % 2 = 1 THEN <<"a">> ELSE <<"b">>]

\* The page with the websocket open, at load or after a long session.
InitInput ==
    /\ websocket = "ws"
    /\ sock = "open"
    /\ connected = TRUE
    /\ everconnected = TRUE
    /\ wsout = <<>>
    /\ uiprefs = [k \in PrefKeys |->
                    IF k = "leftright_percent" THEN LEFTRIGHT_DEFAULT
                    ELSE UPDOWN_DEFAULT]
    /\ changed_uiprefs = {}
    /\ uipref_changed_timer = 0
    /\ timers = {}
    /\ nexttimer = 1
    /\ now = 0
    /\ noted = <<>>
    /\ fires = <<>>
    /\ view = InitView
    /\ eventpane = <<>>
    /\ lastcmd = "none"
    /\ wsin = <<>>
    /\ nserial = 0
    /\ plist = [map |-> <<>>, list |-> <<>>]
    /\ plistops = {}
    /\ portlist = {}
    /\ availscopemap = <<>>
    /\ availscopelist = <<>>
    /\ scopeops = {}
    /\ consolelog = {}
    /\ uncaught = {}
    /\ issued = <<>>
    /\ eventhistory \in {<<>>, LongHistory}
    /\ eventhistorypos = Len(eventhistory)
    /\ inputval = <<>>
    /\ entered = [n |-> 0, val |-> <<>>, conn |-> FALSE]
    /\ ServerInit
    /\ BuildInit

\* The user changes the text of the input field.
input_typed ==
    \E val \in TypedLines :
        /\ inputval' = val
        /\ UNCHANGED <<issued, eventhistory, eventhistorypos, entered>>
        /\ UNCHANGED <<plist, plistops, portlist, scopevars, logvars, tablevars>>
        /\ UNCHANGED <<prefvars, pagevars, servervars, buildvars>>

\* evhan_input_keypress(ev) for Return: submit_line_input(this.value).
evhan_input_keypress ==
    /\ entered.n < MaxSubmits
    /\ submit_line(inputval)

\* evhan_input_keydown(ev) for the Up and Down keys.
evhan_input_keydown_unchecked ==
    \E keycode \in {"KEY_UP", "KEY_DOWN"} :
        LET pos == IF keycode = "KEY_UP" THEN eventhistorypos - 1
                   ELSE eventhistorypos + 1
        IN  /\ eventhistorypos' = pos
            /\ inputval' = IF pos >= 0 /\ pos < Len(eventhistory)
                           THEN eventhistory[pos + 1] ELSE <<>>
            /\ UNCHANGED <<issued, eventhistory, entered>>
            /\ UNCHANGED <<plist, plistops, portlist, scopevars, logvars, tablevars>>
            /\ UNCHANGED <<prefvars, pagevars, servervars, buildvars>>

evhan_input_keydown ==
    \E keycode \in {"KEY_UP", "KEY_DOWN"} :
        LET pos == IF keycode = "KEY_UP" /\ eventhistorypos > 0
                   THEN eventhistorypos - 1
                   ELSE IF keycode = "KEY_DOWN" /\ eventhistorypos < Len(eventhistory)
                   THEN eventhistorypos + 1
                   ELSE eventhistorypos
        IN  /\ eventhistorypos' = pos
            /\ inputval' = IF pos = eventhistorypos THEN inputval
                           ELSE IF pos < Len(eventhistory) THEN eventhistory[pos + 1]
                           ELSE <<>>
            /\ UNCHANGED <<issued, eventhistory, entered>>
            /\ UNCHANGED <<plist, plistops, portlist, scopevars, logvars, tablevars>>
            /\ UNCHANGED <<prefvars, pagevars, servervars, buildvars>>

NextInput ==
    \/ input_typed
    \/ evhan_input_keypress
    \/ evhan_input_keydown
    \/ evhan_websocket_close

SpecInput == InitInput /\ [][NextInput]_vars

\* The first revision of the page (src/unnamed/part_000), which has the
\* same history and the same Up and Down keys: submit_line_input(val) does
\* not trim val and hands it to websocket.send as it is.
submit_line_input_000(val) ==
    /\ eventhistory' = history_push(eventhistory, val)
    /\ eventhistorypos' = IF val # <<>> THEN Len(eventhistory') ELSE eventhistorypos
    /\ inputval' = <<>>
    /\ wsout' = IF val # <<>> THEN Append(wsout, val) ELSE wsout
    /\ entered' = [n |-> entered.n + 1, val |-> val, conn |-> connected]
    /\ UNCHANGED <<issued, eventpane>>
    /\ UNCHANGED <<plist, plistops, portlist, scopevars, logvars, tablevars>>
    /\ UNCHANGED <<servervars, buildvars, websocket, connected, everconnected,
                   sock, uiprefs, changed_uiprefs, uipref_changed_timer,
                   timers, nexttimer, now, view, lastcmd, wsin, nserial,
                   noted, fires>>

\* evhan_input_keypress(ev) of part_000 for Return.
evhan_input_keypress_000 ==
    /\ entered.n < MaxSubmits
    /\ submit_line_input_000(inputval)

NextInput000 ==
    \/ input_typed
    \/ evhan_input_keypress_000
    \/ evhan_input_keydown

SpecInput000 == InitInput /\ [][NextInput000]_vars

(***************************************************************************)
(* The Connection Registry of spec.md 4.1. The server code is not among    *)
(* the sources; attach, detach and lookup follow the contract of 4.1 and   *)
(* the cancellation rule of 4.3.                                           *)
(***************************************************************************)

\* What a second attach for an attached player does, as configured.
Policies == {"supersede", "reject"}

\* A connection of the registry: the session it was attached for and
\* whether it is "active", "closed" (detached) or "rejected".
Conn(s, state) == [session |-> s, state |-> state]

\* The connections that are active for session s in registry reg.
active_connections(reg, s) ==
    {c \in 1..Len(reg) : reg[c].session = s /\ reg[c].state = "active"}

\* lookup(session_id): the session's connection, or absent (the empty set).
lookup(s) == active_connections(registry, s)

\* The forced detach of whatever is active for session s.
close_connections(reg, s) ==
    [c \in 1..Len(reg) |->
        IF reg[c].session = s /\ reg[c].state = "active"
        THEN Conn(s, "closed") ELSE reg[c]]

\* The registry after attach(connection, player_id): a first attach is
\* entered as active; a second one supersedes the prior connection or is
\* rejected.
registry_attach_both(reg, s, policy) == Append(reg, Conn(s, "active"))

registry_attach(reg, s, policy) ==
    IF active_connections(reg, s) = {} THEN Append(reg, Conn(s, "active"))
    ELSE IF policy = "supersede"
         THEN Append(close_connections(reg, s), Conn(s, "active"))
         ELSE Append(reg, Conn(s, "rejected"))

\* Detach removes the session from the scope and location indexes.
binding_after_detach_kept(b) == b

binding_after_detach(b) == Unbound

\* Deltas already enqueued for a detached session are dropped.
outbox_after_detach(q) == <<>>

\* What detaching session s does to the session: it is unbound and its
\* outbox is dropped.
session_detached(s) ==
    /\ binding' = [binding EXCEPT ![s] = binding_after_detach(@)]
    /\ pending_outbox' = [pending_outbox EXCEPT ![s] = outbox_after_detach(@)]
    /\ purged' = [purged EXCEPT ![s] =
                     @ \cup {pending_outbox[s][i].id : i \in 1..Len(pending_outbox[s])}]

\* attach(connection, player_id): a new connection asks for the session of
\* a player.
attach ==
    \E s \in Sessions, policy \in Policies :
        /\ Len(registry) < MaxAttach
        /\ registry' = registry_attach(registry, s, policy)
        /\ IF lookup(s) # {} /\ policy = "supersede"
           THEN session_detached(s)
           ELSE UNCHANGED <<binding, pending_outbox, purged>>
        /\ UNCHANGED <<inbox, dropped, log>>
        /\ UNCHANGED <<prefvars, pagevars, listvars, buildvars>>

\* detach(connection): the transport of an active connection has closed.
detach ==
    \E c \in 1..Len(registry) :
        /\ registry[c].state = "active"
        /\ registry' = [registry EXCEPT ![c] = Conn(registry[c].session, "closed")]
        /\ session_detached(registry[c].session)
        /\ UNCHANGED <<inbox, dropped, log>>
        /\ UNCHANGED <<prefvars, pagevars, listvars, buildvars>>

(***************************************************************************)
(* The Change Notifier / Fanout Engine of spec.md 4.3. The server code is  *)
(* not among the sources; the steps below follow the algorithm of 4.3:    *)
(* resolve the affected sessions, enqueue one delta per session, flush    *)
(* each outbox first in first out, check the scope at dequeue time.       *)
(***************************************************************************)

\* members_of(scope_id, location_key): the sessions positioned there now.
members_of(place) == {s \in Sessions : binding[s] = place}

\* Step 1 for a location, populace or property change: the sessions whose
\* current scope and location match the mutation's.
affected_sessions_all(place) == Sessions

affected_sessions(place) == members_of(place)

\* The sessions an event-log message goes to: the populace of the
\* originating location, taken at broadcast.
event_targets_all(place) == Sessions

event_targets(place) == members_of(place)

\* A queued message: the number of its mutation event, its kind ("update"
\* or "event") and the place the event targets; moved records that the
\* session's binding changed while the message was queued.
Delta(id, kind, place) ==
    [id |-> id, kind |-> kind, place |-> place, moved |-> FALSE]

\* The comparison made at dequeue time with the session's current state.
scope_matches_any(d, b) == TRUE

scope_matches(d, b) == d.place = b

\* Event-log messages are always delivered; a state delta is delivered only
\* while it matches the session's binding.
deliverable(d, b) == d.kind = "event" \/ scope_matches(d, b)

\* Step 3: the delta is put at the end of the outbox of every session of
\* targets.
enqueue(targets, d) ==
    pending_outbox' = [s \in Sessions |->
                          IF s \in targets THEN Append(pending_outbox[s], d)
                          ELSE pending_outbox[s]]

\* notify(mutation_event) for a change of a location's state.
notify ==
    \E place \in Places :
        /\ Len(log) < MaxMutations
        /\ LET targets == affected_sessions(place)
           IN  /\ enqueue(targets, Delta(Len(log) + 1, "update", place))
               /\ log' = Append(log, [kind |-> "update", place |-> place,
                                      members |-> members_of(place)])
        /\ UNCHANGED <<binding, inbox, dropped>>
        /\ UNCHANGED <<prefvars, pagevars, listvars, buildvars, connvars>>

\* A say, pose or meta line is broadcast in a location.
broadcast ==
    \E place \in Places :
        /\ Len(log) < MaxMutations
        /\ members_of(place) # {}
        /\ LET targets == event_targets(place)
           IN  /\ enqueue(targets, Delta(Len(log) + 1, "event", place))
               /\ log' = Append(log, [kind |-> "event", place |-> place,
                                      members |-> members_of(place)])
        /\ UNCHANGED <<binding, inbox, dropped>>
        /\ UNCHANGED <<prefvars, pagevars, listvars, buildvars, connvars>>

\* The outbox of session s is flushed by one message: the head is dequeued
\* and either sent over the transport or discarded.
flush ==
    \E s \in Sessions :
        /\ pending_outbox[s] # <<>>
        /\ LET d == Head(pending_outbox[s])
               e == [id |-> d.id, kind |-> d.kind, place |-> d.place,
                     moved |-> d.moved, at |-> binding[s]]
           IN  IF deliverable(d, binding[s])
               THEN /\ inbox' = [inbox EXCEPT ![s] = Append(@, e)]
                    /\ UNCHANGED dropped
               ELSE /\ dropped' = [dropped EXCEPT ![s] = @ \cup {e}]
                    /\ UNCHANGED inbox
        /\ pending_outbox' = [pending_outbox EXCEPT ![s] = Tail(@)]
        /\ UNCHANGED <<binding, log>>
        /\ UNCHANGED <<prefvars, pagevars, listvars, buildvars, connvars>>

\* A session is bound to a place, or moves to another one (portal
\* traversal): Unbound -> Bound(scope, loc) -> Bound(new scope, loc). Only
\* a session with a live connection takes part in the world.
world_update ==
    \E s \in Sessions, place \in Places :
        /\ lookup(s) # {}
        /\ binding[s] # place
        /\ binding' = [binding EXCEPT ![s] = place]
        /\ pending_outbox' =
               [pending_outbox EXCEPT ![s] =
                   [i \in 1..Len(@) |-> [@[i] EXCEPT !.moved = TRUE]]]
        /\ UNCHANGED <<inbox, dropped, log>>
        /\ UNCHANGED <<prefvars, pagevars, listvars, buildvars, connvars>>

NextFanout ==
    \/ notify
    \/ broadcast
    \/ flush
    \/ world_update

\* Every player has attached once: the fanout among sessions that stay
\* connected.
InitFanout ==
    /\ websocket = "ws"
    /\ sock = "open"
    /\ connected = TRUE
    /\ everconnected = TRUE
    /\ wsout = <<>>
    /\ uiprefs = [k \in PrefKeys |->
                    IF k = "leftright_percent" THEN LEFTRIGHT_DEFAULT
                    ELSE UPDOWN_DEFAULT]
    /\ changed_uiprefs = {}
    /\ uipref_changed_timer = 0
    /\ timers = {}
    /\ nexttimer = 1
    /\ now = 0
    /\ noted = <<>>
    /\ fires = <<>>
    /\ view = InitView
    /\ eventpane = <<>>
    /\ lastcmd = "none"
    /\ wsin = <<>>
    /\ nserial = 0
    /\ ListInit
    /\ BuildInit
    /\ binding = [s \in Sessions |-> Unbound]
    /\ pending_outbox = [s \in Sessions |-> <<>>]
    /\ inbox = [s \in Sessions |-> <<>>]
    /\ dropped = [s \in Sessions |-> {}]
    /\ log = <<>>
    /\ registry = <<Conn("s1", "active"), Conn("s2", "active")>>
    /\ purged = [s \in Sessions |-> {}]

SpecFanout == InitFanout /\ [][NextFanout]_vars

\* The connection registry alone: connections attach and detach while the
\* sessions move.
NextRegistry ==
    \/ attach
    \/ detach
    \/ world_update

SpecRegistry == Init /\ [][NextRegistry]_vars

\* The sessions come and go: connections attach and detach while locations
\* change and the outboxes are flushed, and the page of a player loses its
\* connection while the player enters commands.
\* Attaches and notifications, MaxOps together.
SessionBudget == Len(registry) + Len(log) < MaxOps

NextSession ==
    \/ SessionBudget /\ attach
    \/ detach
    \/ world_update
    \/ SessionBudget /\ notify
    \/ flush
    \/ submit_line_input
    \/ evhan_websocket_close

SpecSession == Init /\ [][NextSession]_vars

(***************************************************************************)
(* The property editor (src/static/js/build.js) and the store behind       *)
(* /build/setprop. The handler of /build/setprop is not among the sources; *)
(* it is modelled as the write of spec.md 4.5 for a request that carries   *)
(* what evhan_button_save sends.                                           *)
(***************************************************************************)

\* prop_set_dirty(tableref, propref, dirty)
prop_set_dirty(row, dirty) == [row EXCEPT !.dirty = dirty]

\* prop_set_warning(tableref, propref, message): a message that is not
\* truthy hides the warning line and empties it.
prop_set_warning(row, message) ==
    IF message # "" THEN [row EXCEPT !.warning = message]
    ELSE [row EXCEPT !.warning = ""]

\* evhan_input_textarea(ev): the user has typed text into the row.
evhan_input_textarea ==
    \E e \in Editors, text \in EditTexts :
        /\ rows[e].text # text
        /\ rows' = [rows EXCEPT ![e] =
                       IF ~@.dirty THEN prop_set_dirty([@ EXCEPT !.text = text], TRUE)
                       ELSE [@ EXCEPT !.text = text]]
        /\ UNCHANGED <<store, readver, requests, replies, commits, outcomes>>
        /\ UNCHANGED <<prefvars, pagevars, listvars, servervars>>

\* update_prop(tableref, prop) for a row that exists: propref.val and the
\* textarea take the property's value.
update_prop(row, val) == [row EXCEPT !.val = val, !.text = val]

\* evhan_button_revert(ev)
evhan_button_revert ==
    \E e \in Editors :
        /\ rows[e].dirty
        /\ rows' = [rows EXCEPT ![e] =
                       prop_set_warning(
                           prop_set_dirty(update_prop(@, @.val), FALSE), "")]
        /\ UNCHANGED <<store, readver, requests, replies, commits, outcomes>>
        /\ UNCHANGED <<prefvars, pagevars, listvars, servervars>>

\* The msg evhan_button_save posts: id, key and the value of the textarea;
\* no version is among its fields.
save_msg(row) == [kind |-> "setprop", val |-> row.text]

\* The editors whose POST or its reply is on the way.
InFlight == {e \in Editors : requests[e] # NoMsg \/ replies[e] # NoMsg}

\* evhan_button_save(ev) up to jQuery.ajax; one POST per editor is in
\* flight at a time, and Save is pressed MaxSaves times at most.
evhan_button_save ==
    \E e \in Editors :
        /\ Len(outcomes) + Cardinality(InFlight) < MaxSaves
        /\ rows[e].dirty
        /\ requests[e] = NoMsg
        /\ replies[e] = NoMsg
        /\ requests' = [requests EXCEPT ![e] = save_msg(rows[e])]
        /\ UNCHANGED <<store, rows, readver, replies, commits, outcomes>>
        /\ UNCHANGED <<prefvars, pagevars, listvars, servervars>>

\* The store handles the POST of editor e. The request names no expected
\* version, so there is none to compare: the write is applied and the
\* version incremented. commits records the version the editor had read;
\* the reply notes that the write was applied, whether the editor's row was
\* stale, and the value the store held.
setprop ==
    \E e \in Editors :
        /\ requests[e] # NoMsg
        /\ requests' = [requests EXCEPT ![e] = NoMsg]
        /\ store' = [val |-> requests[e].val, version |-> store.version + 1]
        /\ replies' = [replies EXCEPT ![e] =
                          [kind |-> "prop", val |-> requests[e].val,
                           version |-> store.version + 1,
                           applied |-> TRUE,
                           stale |-> readver[e] < store.version,
                           current |-> store.val]]
        /\ commits' = Append(commits, [editor |-> e, val |-> requests[e].val,
                                       expected |-> readver[e],
                                       before |-> store.version,
                                       after |-> store.version + 1,
                                       replaced |-> store.val])
        /\ UNCHANGED <<rows, readver, outcomes>>
        /\ UNCHANGED <<prefvars, pagevars, listvars, servervars>>

\* The store cannot write: the reply carries data.error.
setprop_error ==
    \E e \in Editors :
        /\ requests[e] # NoMsg
        /\ requests' = [requests EXCEPT ![e] = NoMsg]
        /\ replies' = [replies EXCEPT ![e] =
                          [kind |-> "error", val |-> requests[e].val,
                           version |-> store.version,
                           applied |-> FALSE,
                           stale |-> readver[e] < store.version,
                           current |-> store.val]]
        /\ UNCHANGED <<store, rows, readver, commits, outcomes>>
        /\ UNCHANGED <<prefvars, pagevars, listvars, servervars>>

\* What a callback found and left: the kind of outcome, whether the store
\* had applied the write, whether the editor's row was stale, and of the
\* row after the callback: whether it shows the value the store held when
\* the POST arrived, whether it is dirty, whether its warning line shows,
\* and whether propref.val is what it was before the callback.
Outcome(e, kind, reply, before, after) ==
    [editor |-> e, kind |-> kind, applied |-> reply.applied,
     stale |-> reply.stale,
     refreshed |-> after.text = reply.current /\ after.val = reply.current,
     dirty |-> after.dirty,
     warned |-> after.warning # "",
     valkept |-> after.val = before.val]

\* The row after the success callback of evhan_button_save.
success_row_optimistic(row, reply) ==
    prop_set_dirty(prop_set_warning(update_prop(row, reply.val), ""), FALSE)

success_row(row, reply) ==
    IF reply.kind = "error"
    THEN prop_set_dirty(prop_set_warning(row, "store error"), TRUE)
    ELSE prop_set_dirty(prop_set_warning(update_prop(row, reply.val), ""), FALSE)

\* The success callback of evhan_button_save.
ajax_success ==
    \E e \in Editors :
        /\ replies[e] # NoMsg
        /\ replies' = [replies EXCEPT ![e] = NoMsg]
        /\ rows' = [rows EXCEPT ![e] = success_row(@, replies[e])]
        /\ readver' = IF replies[e].kind = "error" THEN readver
                      ELSE [readver EXCEPT ![e] = replies[e].version]
        /\ outcomes' = Append(outcomes,
               Outcome(e, IF replies[e].kind = "error" THEN "error-reply"
                          ELSE "saved",
                       replies[e], rows[e], rows'[e]))
        /\ UNCHANGED <<store, requests, commits>>
        /\ UNCHANGED <<prefvars, pagevars, listvars, servervars>>

\* The texts jQuery hands the error callback as its third argument: the
\* status text of the HTTP reply, which is empty when the request got no
\* reply at all.
HttpErrors == {"", "Internal Server Error"}

\* The error callback of evhan_button_save: the POST failed on the way, or
\* its reply did.
ajax_error ==
    \E e \in Editors, error \in HttpErrors :
        /\ requests[e] # NoMsg \/ replies[e] # NoMsg
        /\ requests' = [requests EXCEPT ![e] = NoMsg]
        /\ replies' = [replies EXCEPT ![e] = NoMsg]
        /\ rows' = [rows EXCEPT ![e] =
                       prop_set_dirty(prop_set_warning(@, error), TRUE)]
        /\ outcomes' = Append(outcomes,
               Outcome(e, "http-failure",
                       IF replies[e] # NoMsg THEN replies[e]
                       ELSE [applied |-> FALSE,
                             stale |-> readver[e] < store.version,
                             current |-> store.val],
                       rows[e], rows'[e]))
        /\ UNCHANGED <<store, readver, commits>>
        /\ UNCHANGED <<prefvars, pagevars, listvars, servervars>>

NextBuild ==
    \/ evhan_input_textarea
    \/ evhan_button_revert
    \/ evhan_button_save
    \/ setprop
    \/ setprop_error
    \/ ajax_success
    \/ ajax_error

SpecBuild == Init /\ [][NextBuild]_vars

(***************************************************************************)
(* The property table (src/static/js/build.js) with its type menu, the     *)
(* Add New button and any number of POSTs in flight; /build/setprop and    *)
(* /build/addprop follow spec.md 3 (Property) and 4.5, the handlers not    *)
(* being among the sources.                                                *)
(***************************************************************************)

\* evhan_input_textarea(ev): the user has typed into one textarea of a row.
evhan_input_textarea_table ==
    \E id \in DOMAIN tableref.propmap :
        \E k \in DOMAIN tableref.propmap[id].areamap, text \in EditTexts :
            LET propref == tableref.propmap[id]
                typed == [propref EXCEPT !.areamap[k] = text,
                                         !.changes = @ \cup {"text"},
                                         !.undone = NotUndone]
            IN  /\ propref.areamap[k] # text
                /\ tableref' = [tableref EXCEPT !.propmap[id] =
                                   IF ~propref.dirty THEN prop_set_dirty(typed, TRUE)
                                   ELSE typed]
                /\ UNCHANGED <<posts, answers, dbprops, nposts>>
                /\ UNCHANGED <<prefvars, pagevars, servervars, buildvars, nontablevars>>

\* evhan_prop_type_change(ev): the user has chosen another type in the
\* row's menu. (prop_set_dirty is given 'delete' or true, both of which set
\* the flag; the label of the Save button is not kept.)
evhan_prop_type_change ==
    \E id \in DOMAIN tableref.propmap :
        \E valtype \in Valtypes \ {tableref.propmap[id].valtype} :
            LET t1 == update_prop_table(tableref, Prop(id, Val(valtype, <<>>)), TRUE)
            IN  /\ tableref' = [t1 EXCEPT !.propmap[id] =
                                   [prop_set_dirty(@, TRUE) EXCEPT
                                       !.changes = @ \cup {"type"},
                                       !.undone = NotUndone]]
                /\ UNCHANGED <<posts, answers, dbprops, nposts>>
                /\ UNCHANGED <<prefvars, pagevars, servervars, buildvars, nontablevars>>

\* The table after evhan_button_revert(ev) for row id.
revert_table(t, id) ==
    LET t1 == update_prop_table(t, t.propmap[id].val, FALSE)
    IN  [t1 EXCEPT !.propmap[id] = prop_set_warning(prop_set_dirty(@, FALSE), "")]

\* evhan_button_revert(ev): Revert is pressed in a row whose buttons show.
evhan_button_revert_table ==
    \E id \in DOMAIN tableref.propmap :
        /\ tableref.propmap[id].dirty
        /\ tableref' = [revert_table(tableref, id) EXCEPT
                           !.propmap[id].undone = tableref.propmap[id].changes,
                           !.propmap[id].changes = {}]
        /\ UNCHANGED <<posts, answers, dbprops, nposts>>
        /\ UNCHANGED <<prefvars, pagevars, servervars, buildvars, nontablevars>>

\* valobj of evhan_button_save: the type and every textarea that is not
\* empty.
valobj(propref) ==
    Val(propref.valtype,
        [k \in {j \in DOMAIN propref.areamap : propref.areamap[j] # ""} |->
            propref.areamap[k]])

\* A POST of jQuery.ajax; obj is the propref the callbacks have closed over.
Post(n, url, id, val, delete, obj) ==
    [n |-> n, url |-> url, id |-> id, val |-> val, delete |-> delete, obj |-> obj]

\* evhan_button_save(ev): Save is pressed in a row whose buttons show.
evhan_button_save_table ==
    \E id \in DOMAIN tableref.propmap :
        LET propref == tableref.propmap[id]
        IN  /\ propref.dirty
            /\ nposts < MaxPosts
            /\ posts' = posts \cup {Post(nposts + 1, "setprop", id, valobj(propref),
                                        propref.valtype = "delete", propref.obj)}
            /\ nposts' = nposts + 1
            /\ UNCHANGED <<tableref, answers, dbprops>>
            /\ UNCHANGED <<prefvars, pagevars, servervars, buildvars, nontablevars>>

\* evhan_button_addnew(ev)
evhan_button_addnew ==
    /\ nposts < MaxPosts
    /\ posts' = posts \cup {Post(nposts + 1, "addprop", "none", Tombstone, FALSE, 0)}
    /\ nposts' = nposts + 1
    /\ UNCHANGED <<tableref, answers, dbprops>>
    /\ UNCHANGED <<prefvars, pagevars, servervars, buildvars, nontablevars>>

\* The reply to a POST: data.error, or data.prop with data.delete.
Answer(p, kind, prop, error) ==
    [n |-> p.n, url |-> p.url, id |-> prop.id, obj |-> p.obj, kind |-> kind,
     prop |-> prop, error |-> error]

\* /build/setprop handles one of the POSTs, in whatever order they arrive:
\* edit-save writes the value, edit-delete leaves a tombstone, and a
\* property that is not there is an error.
build_setprop ==
    \E p \in posts :
        /\ p.url = "setprop"
        /\ posts' = posts \ {p}
        /\ IF p.id \notin DOMAIN dbprops \/ dbprops[p.id] = Tombstone
           THEN /\ answers' = answers \cup
                      {Answer(p, "error", Prop(p.id, Tombstone), "No such property")}
                /\ UNCHANGED dbprops
           ELSE IF p.delete
           THEN /\ answers' = answers \cup {Answer(p, "delete", Prop(p.id, p.val), "")}
                /\ dbprops' = [dbprops EXCEPT ![p.id] = Tombstone]
           ELSE /\ answers' = answers \cup {Answer(p, "prop", Prop(p.id, p.val), "")}
                /\ dbprops' = [dbprops EXCEPT ![p.id] = p.val]
        /\ UNCHANGED <<tableref, nposts>>
        /\ UNCHANGED <<prefvars, pagevars, servervars, buildvars, nontablevars>>

\* /build/addprop: edit-add creates a property with an id never used
\* before.
build_addprop ==
    \E p \in posts :
        /\ p.url = "addprop"
        /\ posts' = posts \ {p}
        /\ IF PropIds \subseteq DOMAIN dbprops
           THEN /\ answers' = answers \cup
                      {Answer(p, "error", Prop("none", Tombstone), "No more properties")}
                /\ UNCHANGED dbprops
           ELSE \E id \in PropIds \ DOMAIN dbprops :
                    /\ answers' = answers \cup
                          {Answer(p, "prop", Prop(id, Val("text", <<>>)), "")}
                    /\ dbprops' = propmap_set(dbprops, id, Val("text", <<>>))
        /\ UNCHANGED <<tableref, nposts>>
        /\ UNCHANGED <<prefvars, pagevars, servervars, buildvars, nontablevars>>

\* The row of id takes note that the server has handed over prop.
received(t, prop) ==
    [t EXCEPT !.propmap[prop.id].srv = prop,
              !.propmap[prop.id].changes = {},
              !.propmap[prop.id].undone = NotUndone]

\* The propref the callbacks have closed over is still the row of the
\* table.
in_table(t, a) == a.id \in DOMAIN t.propmap /\ t.propmap[a.id].obj = a.obj

\* The success callback of evhan_button_save for reply a.
save_success(t, a) ==
    IF a.kind = "error"
    THEN IF in_table(t, a)
         THEN [t EXCEPT !.propmap[a.id] =
                  [prop_set_dirty(prop_set_warning(@, a.error), TRUE) EXCEPT
                      !.undone = NotUndone]]
         ELSE t
    ELSE IF a.kind = "delete" THEN delete_prop(t, a.prop)
    ELSE LET t1 == received(update_prop_table(t, a.prop, FALSE), a.prop)
         IN  IF in_table(t1, a)
             THEN [t1 EXCEPT !.propmap[a.id] =
                      prop_set_dirty(prop_set_warning(@, ""), FALSE)]
             ELSE t1

\* The success callback of evhan_button_addnew for reply a.
addnew_success(t, a) ==
    IF a.kind = "error" THEN t
    ELSE received(update_prop_table(t, a.prop, FALSE), a.prop)

\* A reply arrives and its success callback runs; replies arrive in any
\* order.
ajax_success_table ==
    \E a \in answers :
        /\ answers' = answers \ {a}
        /\ tableref' = IF a.url = "addprop" THEN addnew_success(tableref, a)
                       ELSE save_success(tableref, a)
        /\ UNCHANGED <<posts, dbprops, nposts>>
        /\ UNCHANGED <<prefvars, pagevars, servervars, buildvars, nontablevars>>

NextTable ==
    \/ evhan_input_textarea_table
    \/ evhan_prop_type_change
    \/ evhan_button_revert_table
    \/ evhan_button_save_table
    \/ evhan_button_addnew
    \/ build_setprop
    \/ build_addprop
    \/ ajax_success_table

SpecTable == Init /\ [][NextTable]_vars

(***************************************************************************)
(* Claims about the uiprefs hysteresis (SpecPrefs).                        *)
(***************************************************************************)

\* Run i of send_uipref_changed sent a message.
Sends(i) == fires[i].nsent > fires[i].nbefore

\* The number of changes already written before run i: the upto of the last
\* sending run before i.
RECURSIVE PrevUpto(_)
PrevUpto(i) ==
    IF i <= 1 THEN 0
    ELSE IF Sends(i - 1) THEN fires[i - 1].upto
    ELSE PrevUpto(i - 1)

\* The value given by the last of the first n changes that set key k.
RECURSIVE LatestVal(_, _)
LatestVal(k, n) ==
    IF n = 0 THEN -1
    ELSE IF noted[n].key = k THEN noted[n].val
    ELSE LatestVal(k, n - 1)

\* No run of send_uipref_changed falls between two changes made less than
\* UIPREF_DELAY seconds apart, and no two runs follow the same change.
WindowsNotSplit ==
    /\ \A i \in 1..Len(fires) : \A j \in 1..(Len(noted) - 1) :
           (noted[j + 1].t - noted[j].t < UIPREF_DELAY) => fires[i].upto # j
    /\ \A i \in 1..Len(fires) : \A i2 \in 1..Len(fires) :
           i < i2 => fires[i].upto < fires[i2].upto

\* C2 as stated: the changes of a 2-second window produce exactly one
\* uiprefs write. Once no timer is pending, every change has been written
\* by a message sent after it, and no window was split.
C2_ExactlyOneWrite ==
    timers = {} =>
        /\ WindowsNotSplit
        /\ \A j \in 1..Len(noted) :
               \E i \in 1..Len(fires) :
                   Sends(i) /\ PrevUpto(i) < j /\ j <= fires[i].upto

\* C2 as amended: the changes of a 2-second window produce at most one
\* uiprefs write: the timer runs once per window, not inside it; the run
\* sends exactly one message if the client is connected and none if it is
\* not; a message sent carries exactly the keys changed since the last
\* message sent, each with its latest value.
C2_Debounce ==
    /\ WindowsNotSplit
    /\ \A i \in 1..Len(fires) :
           /\ fires[i].upto >= 1
           /\ fires[i].nsent = fires[i].nbefore + (IF fires[i].conn THEN 1 ELSE 0)
           /\ Sends(i) =>
                  LET m == wsout[fires[i].nsent] IN
                  /\ m.cmd = "uiprefs"
                  /\ DOMAIN m.map =
                         {noted[j].key : j \in (PrevUpto(i) + 1)..fires[i].upto}
                  /\ \A k \in DOMAIN m.map :
                         m.map[k] = LatestVal(k, fires[i].upto)

\* C2 witness: one message was sent for two changes of the same key made
\* less than 2 seconds apart with different values.
C2_Witness ==
    \E i \in 1..Len(fires) :
        /\ Sends(i)
        /\ fires[i].upto >= PrevUpto(i) + 2
        /\ LET n == fires[i].upto IN
               /\ noted[n].key = noted[n - 1].key
               /\ noted[n].val # noted[n - 1].val
               /\ noted[n].t - noted[n - 1].t < UIPREF_DELAY

C4_TimerCancelledOnClose ==
    sock = "closed" => timers = {}

\* C4 as amended: the close of the websocket leaves a pending uiprefs timer
\* pending and the changed keys in place; the timer runs later, and a run of
\* send_uipref_changed while not connected sends nothing and leaves
\* changed_uiprefs and uiprefs as they were.
C4_TimerSurvivesClose ==
    [][ /\ (sock # "closed" /\ sock' = "closed") =>
               /\ timers' = timers
               /\ changed_uiprefs' = changed_uiprefs
               /\ wsout' = wsout
        /\ (Len(fires') > Len(fires) /\ ~connected) =>
               /\ wsout' = wsout
               /\ changed_uiprefs' = changed_uiprefs
               /\ uiprefs' = uiprefs ]_vars

\* C4 witness: the websocket was open and has closed, and the timer ran
\* after the close with changed keys still waiting.
C4_Witness ==
    /\ sock = "closed"
    /\ everconnected
    /\ changed_uiprefs # {}
    /\ \E i \in 1..Len(fires) : fires[i].sock = "closed"

\* The focus part of the page: the focus panes, the special-focus record
\* and the portal tool segment.
FocusPart(v) ==
    <<v.panes, v.special_val, v.special_editplist, v.seg_portal, v.min_portal>>

\* The instance-tool part of the page.
InsttoolPart(v) == <<v.seg_insttool, v.min_insttool>>

\* The numbers of the messages the event pane shows, top to bottom.
PaneSerials == [i \in 1..Len(eventpane) |-> eventpane[i].n]

\* How many event-pane messages onmessage has handled.
Handled == nserial - Len(wsin)

\* C8: the lines of the event pane stand in the order their messages
\* arrived: top to bottom the pane shows consecutive messages, the lowest
\* line is the message handled last, and the messages still held by the
\* websocket are the later ones in sending order.
C8_EventLinesInArrivalOrder ==
    /\ \A i \in 1..Len(eventpane) :
           eventpane[i].n = Handled - Len(eventpane) + i
    /\ \A i \in 1..Len(wsin) : wsin[i].n = Handled + i

\* C8 happens: three messages of three kinds were handled one after another
\* and their lines are the last three of the pane, while another message is
\* still waiting.
C8_Witness ==
    /\ Len(eventpane) >= 3
    /\ wsin # <<>>
    /\ LET k == Len(eventpane)
       IN  /\ eventpane[k - 2].cls = "Event EventError"
           /\ eventpane[k - 1].cls = "Event"
           /\ eventpane[k].cls = "Event EventMessage"
           /\ eventpane[k - 2].n < eventpane[k - 1].n
           /\ eventpane[k - 1].n < eventpane[k].n

UpdateFocusFalse == Msg("update", Absent, Absent, Absent, FocusFalse, Absent)

Received(s) == {inbox[s][i].id : i \in 1..Len(inbox[s])}
Queued(s) == {pending_outbox[s][i].id : i \in 1..Len(pending_outbox[s])}
Discarded(s) == {d.id : d \in dropped[s]}

\* The mutation events of one kind notified so far.
EventsOfKind(kind) == {id \in 1..Len(log) : log[id].kind = kind}

\* C1 as stated: every write the store applies was made by an editor whose
\* row held the current version (none with an expected version below the
\* current one is applied), and the versions the commits return increase
\* strictly.
C1_StaleSaveRejected ==
    /\ \A i \in 1..Len(commits) : commits[i].expected = commits[i].before
    /\ \A i \in 1..Len(commits) : commits[i].after > commits[i].before
    /\ \A i, j \in 1..Len(commits) :
           i < j => commits[i].after < commits[j].after

\* C5 as stated: whenever a delta is at the head of an outbox and about to
\* be delivered, every session bound to the delta's scope and location at
\* that moment has the delta queued or delivered, and no session receives
\* a delta while bound elsewhere.
C5_AllBoundAtDeliveryReceive ==
    /\ \A s, t \in Sessions :
           (/\ pending_outbox[s] # <<>>
            /\ Head(pending_outbox[s]).kind = "update"
            /\ deliverable(Head(pending_outbox[s]), binding[s])
            /\ binding[t] = Head(pending_outbox[s]).place)
           => Head(pending_outbox[s]).id \in Queued(t) \cup Received(t)
    /\ \A s \in Sessions : \A i \in 1..Len(inbox[s]) :
           inbox[s][i].kind = "update" => inbox[s][i].at = inbox[s][i].place

\* C5, amended: for every mutation event targeting scope S and location L,
\* a session bound to (S, L) when the event was notified has the delta
\* queued, delivered or discarded, and it is delivered only while the
\* session is bound to (S, L) at dequeue and discarded only while it is
\* not; a session bound elsewhere when the event was notified gets nothing
\* for it, whatever it is bound to later.
C5_FanoutComplete ==
    \A id \in EventsOfKind("update") : \A s \in Sessions :
        /\ s \in log[id].members
               => id \in Queued(s) \cup Received(s) \cup Discarded(s)
        /\ s \notin log[id].members
               => id \notin Queued(s) \cup Received(s) \cup Discarded(s)
        /\ \A i \in 1..Len(inbox[s]) :
               inbox[s][i].id = id => inbox[s][i].at = log[id].place
        /\ \A d \in dropped[s] : d.id = id => d.at # log[id].place

\* C5 happens: a delta was delivered to a session bound to its place, and
\* another session, bound elsewhere when the event was notified, is bound
\* to that place now and has nothing for the event.
C5_Witness ==
    \E id \in EventsOfKind("update") : \E s, t \in Sessions :
        /\ id \in Received(s)
        /\ t \notin log[id].members
        /\ binding[t] = log[id].place
        /\ id \notin Queued(t) \cup Received(t)

\* C6 as stated: no delta is delivered to a session whose binding changed
\* between the generation of the delta and its dequeue.
C6_MovedNeverDelivered ==
    \A s \in Sessions : \A i \in 1..Len(inbox[s]) :
        inbox[s][i].kind = "update" => ~inbox[s][i].moved

\* C6, amended: a delta that does not match the session's binding when it
\* is dequeued is discarded and never delivered: every delivered delta
\* matched the binding at dequeue, and every discarded one is a state delta
\* of a session that had moved and was bound elsewhere at dequeue. (A
\* session that moved away and back before the dequeue is sent the delta.)
C6_StaleScopeDiscarded ==
    \A s \in Sessions :
        /\ \A i \in 1..Len(inbox[s]) :
               inbox[s][i].kind = "update"
                   => (inbox[s][i].at = inbox[s][i].place /\ inbox[s][i].at \in Places)
        /\ \A d \in dropped[s] :
               /\ d.kind = "update"
               /\ d.moved
               /\ d.at # d.place

\* C6 happens: a session bound to a new place had a delta of its old place
\* discarded.
C6_Witness ==
    \E s \in Sessions : \E d \in dropped[s] :
        /\ d.moved
        /\ d.at \in Places
        /\ d.at # d.place
        /\ d.id \notin Received(s)

MapPairs(map) == {<<map[i].key, map[i].val>> : i \in 1..Len(map)}

\* The keys an updateplist message mentions.
Mentioned(obj) == {obj.map[i].key : i \in 1..Len(obj.map)}

\* C11: for every portal map the page can hold and every updateplist
\* message, the map after the message is the map before (the empty map when
\* clear is set) without the ids the message mentions, plus every mentioned
\* id whose value is not false with the portal object given; no id occurs
\* twice.
C11_UpdateplistApplied ==
    \A m \in PlistMsgs :
        LET after == updateplist_map(plist, m)
            base == IF m.clear THEN {} ELSE MapPairs(plist.map)
        IN  /\ MapPairs(after) =
                   {p \in base : p[1] \notin Mentioned(m)}
                   \cup {<<m.map[i].key, m.map[i].val>> :
                            i \in {j \in 1..Len(m.map) : m.map[j].val # PFalse}}
            /\ \A i, j \in 1..Len(after) :
                   after[i].key = after[j].key => i = j

\* C11 happens: updateplist messages have cleared a map, removed an entry,
\* replaced one and added one, and the map holds two portals.
C11_Witness ==
    /\ lastcmd = "updateplist"
    /\ plistops = {"clear", "remove", "replace", "add"}
    /\ Len(plist.map) = 2

\* C12: after any sequence of additions to and deletions from the portal
\* list, the list the page holds after cmd_updateplist has the portals of
\* its map, each once, in strictly increasing list position.
C12_ListStrictlyIncreasing ==
    /\ \A i, j \in 1..Len(plist.list) :
           i < j => plist.list[i].listpos < plist.list[j].listpos
    /\ Len(plist.list) = Len(plist.map)
    /\ {plist.list[i] : i \in 1..Len(plist.list)}
           = {plist.map[i].val : i \in 1..Len(plist.map)}

\* C12 happens: after additions and a deletion the page holds a list of
\* two portals or more whose order is not the order they came in.
C12_Witness ==
    /\ lastcmd = "updateplist"
    /\ {"add", "remove"} \subseteq plistops
    /\ Len(plist.list) >= 2
    /\ plist.list # map_values(plist.map)

\* The place of a scope in the available-scope list: 0 the global scope, 1
\* the player's own personal scope, 2 another personal scope, 3 the rest.
ScopeRank(scope) ==
    IF scope.type = "glob" THEN 0
    ELSE IF scope.type = "pers" /\ scope.you THEN 1
    ELSE IF scope.type = "pers" THEN 2
    ELSE 3

\* A scope as the message gave it, without the sorting key.
ScopeGiven(scope) == Scope(scope.id, scope.type, scope.you)

\* C13: for every updatescopes message, availscopemap after it is the map
\* before (the empty map when clear is set) without the ids the message
\* mentions, plus every mentioned id whose value is not false with the
\* scope given; availscopelist holds exactly the scopes of availscopemap,
\* each once; and the list runs global scope, own personal scope, other
\* personal scopes, remaining scopes.
C13_UpdatescopesMirrors ==
    /\ \A m \in ScopesMsgs :
           LET after == updatescopes_map(availscopemap, m)
               base == IF m.clear THEN {} ELSE
                           {<<availscopemap[i].key,
                              ScopeGiven(availscopemap[i].val)>> :
                                i \in 1..Len(availscopemap)}
           IN  /\ {<<after[i].key, ScopeGiven(after[i].val)>> :
                       i \in 1..Len(after)} =
                      {p \in base : p[1] \notin Mentioned(m)}
                      \cup {<<m.map[i].key, m.map[i].val>> :
                               i \in {j \in 1..Len(m.map) : m.map[j].val # SFalse}}
               /\ \A i, j \in 1..Len(after) :
                      after[i].key = after[j].key => i = j
    /\ Len(availscopelist) = Len(availscopemap)
    /\ {availscopelist[i] : i \in 1..Len(availscopelist)}
           = {availscopemap[i].val : i \in 1..Len(availscopemap)}
    /\ \A i, j \in 1..Len(availscopelist) :
           i < j => ScopeRank(availscopelist[i]) <= ScopeRank(availscopelist[j])

\* C13 happens: updatescopes messages have cleared, removed, replaced and
\* added scopes, and the list holds a global scope, the player's own
\* personal scope and another personal scope with a smaller id, in another
\* order than they came in.
C13_Witness ==
    /\ lastcmd = "updatescopes"
    /\ scopeops = {"clear", "remove", "replace", "add"}
    /\ Len(availscopelist) = 3
    /\ availscopelist # map_values(availscopemap)
    /\ ScopeRank(availscopelist[1]) = 0
    /\ ScopeRank(availscopelist[2]) = 1
    /\ ScopeRank(availscopelist[3]) = 2
    /\ availscopelist[3].id < availscopelist[2].id

\* C14 as stated: a message whose cmd the page does not know is logged and
\* ignored: no onmessage run ends in an uncaught error, and only unknown
\* cmds are logged.
C14_UnknownLoggedAndIgnored ==
    /\ uncaught = {}
    /\ consolelog \cap command_table_play = {}

\* C15 as stated: a save made from a row that was stale when the POST
\* arrived, and that the server answered, is not applied and does not end
\* as saved, and the callback leaves the row showing the value the store
\* held.
C15_StaleSaveRefreshesRow ==
    \A i \in 1..Len(outcomes) :
        (outcomes[i].stale /\ outcomes[i].kind # "http-failure") =>
            /\ ~outcomes[i].applied
            /\ outcomes[i].kind # "saved"
            /\ outcomes[i].refreshed

\* C16: an editor is shown a save as done only after the store applied it:
\* every outcome 'saved' is of an applied write and a row holds a server
\* value other than the one loaded only if the store committed that value
\* for that editor; a reply with data.error is of a write that was not
\* applied and leaves the row dirty with its warning; a warning shows only
\* in the row of an editor whose own save failed.
C16_CommitThenNotify ==
    /\ \A i \in 1..Len(outcomes) :
           /\ outcomes[i].kind = "saved" => outcomes[i].applied
           /\ outcomes[i].kind = "error-reply" =>
                  /\ ~outcomes[i].applied
                  /\ outcomes[i].dirty
                  /\ outcomes[i].warned
                  /\ outcomes[i].valkept
    /\ \A e \in Editors :
           /\ rows[e].val # "v0" =>
                  \E i \in 1..Len(commits) :
                      commits[i].editor = e /\ commits[i].val = rows[e].val
           /\ rows[e].warning # "" =>
                  \E i \in 1..Len(outcomes) :
                      outcomes[i].editor = e /\ outcomes[i].kind # "saved"

\* C16 happens: one editor's save was answered with data.error and left
\* nothing in the store or in the other editor's row, whose own save was
\* applied and then shown as done.
C16_Witness ==
    \E i, j \in 1..Len(outcomes) :
        /\ outcomes[i].kind = "error-reply"
        /\ outcomes[j].kind = "saved"
        /\ outcomes[i].editor # outcomes[j].editor
        /\ Len(commits) = 1
        /\ rows[outcomes[j].editor].warning = ""
        /\ rows[outcomes[i].editor].val = "v0"

\* C20 as stated: after a save that failed, by a reply with data.error or
\* by a failed HTTP request, the row is dirty, its warning shows, and
\* propref.val is what it was.
C20_FailedSaveWarns ==
    \A i \in 1..Len(outcomes) :
        outcomes[i].kind \in {"error-reply", "http-failure"} =>
            /\ outcomes[i].dirty
            /\ outcomes[i].warned
            /\ outcomes[i].valkept

\* The connections of session s that are in state st.
ConnsOf(s, st) == {c \in 1..Len(registry) : registry[c] = Conn(s, st)}

\* C17: a session is Unbound or bound to one (scope, location), and only a
\* session with a live connection is bound; its binding changes only to a
\* place while its connection stays (Unbound -> Bound on a world update,
\* Bound -> Bound(new) on a portal action or world update), or from a place
\* to Unbound in the step that closes its connection (detach).
C17_BindingTransitions ==
    /\ [](\A s \in Sessions :
              /\ binding[s] \in Places \cup {Unbound}
              /\ binding[s] \in Places => ConnsOf(s, "active") # {})
    /\ [][\A s \in Sessions :
              binding'[s] # binding[s] =>
                  \/ /\ binding'[s] \in Places
                     /\ ConnsOf(s, "active") # {}
                     /\ registry' = registry
                  \/ /\ binding[s] \in Places
                     /\ binding'[s] = Unbound
                     /\ \E c \in ConnsOf(s, "active") :
                            registry'[c] = Conn(s, "closed")]_vars

\* C17 happens: a session that was bound has detached and is Unbound while
\* the other one, attached once and never detached, is bound.
C17_Witness ==
    \E s, t \in Sessions :
        /\ s # t
        /\ binding[s] = Unbound
        /\ ConnsOf(s, "closed") # {}
        /\ ConnsOf(s, "active") = {}
        /\ binding[t] \in Places
        /\ ConnsOf(t, "closed") = {}

\* C18: no session ever has two active connections; and an attach for a
\* session that has an active connection either closes that connection and
\* enters the new one as active, or enters the new one as rejected and
\* leaves the old one active.
C18_OneActiveConnection ==
    /\ [](\A s \in Sessions : Cardinality(ConnsOf(s, "active")) <= 1)
    /\ [][\A s \in Sessions :
              (/\ Len(registry') = Len(registry) + 1
               /\ registry'[Len(registry')].session = s
               /\ ConnsOf(s, "active") # {}) =>
                  \/ /\ registry'[Len(registry')].state = "active"
                     /\ \A c \in ConnsOf(s, "active") : registry'[c].state = "closed"
                  \/ /\ registry'[Len(registry')].state = "rejected"
                     /\ \A c \in ConnsOf(s, "active") : registry'[c] = registry[c]]_vars

\* C18 happens: a second attach for a session has superseded the first, and
\* a third one was rejected.
C18_Witness ==
    \E s \in Sessions :
        registry = <<Conn(s, "closed"), Conn(s, "active"), Conn(s, "rejected")>>

\* The commands of issued that were entered while connected was conn.
IssuedWhile(conn) == SelectSeq(issued, LAMBDA x : x.conn = conn)

\* The lines of the event pane that say the page is not connected.
NotConnectedLines ==
    {i \in 1..Len(eventpane) :
        /\ eventpane[i].cls = "Event EventError"
        /\ eventpane[i].text = "Error: You are not connected to the server."}

\* C19: a delta that was in the outbox of a session when it detached is
\* neither queued for nor delivered to that session afterwards, whatever
\* the session attaches to and is bound to later; and what the page has
\* given to websocket.send is exactly the commands entered while connected
\* was true, in order: a command entered while it was false has added one
\* 'not connected' line to the event pane and is never sent.
C19_DetachedDroppedNeverSent ==
    /\ \A s \in Sessions : purged[s] \cap (Queued(s) \cup Received(s)) = {}
    /\ wsout = [i \in 1..Len(IssuedWhile(TRUE)) |-> IssuedWhile(TRUE)[i].obj]
    /\ Cardinality(NotConnectedLines) = Len(IssuedWhile(FALSE))

\* C19 happens: a session lost a queued delta at detach, is attached again,
\* bound to the delta's place again with an empty outbox, and has not got
\* it; and the page, its connection lost, has discarded a command.
C19_Witness ==
    \E s \in Sessions : \E id \in purged[s] :
        /\ ConnsOf(s, "active") # {}
        /\ binding[s] = log[id].place
        /\ pending_outbox[s] = <<>>
        /\ id \notin Received(s)
        /\ ~connected
        /\ Len(IssuedWhile(FALSE)) = 1
        /\ wsout = <<>>

\* C23 as stated: when the success callback of a save handles a reply
\* without data.error while the row's text is no longer the text that was
\* saved, the row still shows that newer text afterwards and is still
\* dirty.
C23_SuccessKeepsNewerEdit ==
    [][\A e \in Editors :
          (/\ replies[e] # NoMsg
           /\ replies[e].kind = "prop"
           /\ rows[e].text # replies[e].val
           /\ Len(outcomes') = Len(outcomes) + 1
           /\ outcomes'[Len(outcomes')].editor = e
           /\ outcomes'[Len(outcomes')].kind = "saved") =>
              /\ rows'[e].text = rows[e].text
              /\ rows'[e].dirty]_vars

\* The ids of the list ls.
ListIds(ls) == {ls[i] : i \in 1..Len(ls)}

\* C21: a row that Revert has acted on last, whatever text edits and type
\* changes it had undergone, has the type and every textarea of the
\* property the server handed over last for that row, is not dirty and
\* shows no warning.
C21_RevertRestoresServerValue ==
    \A id \in DOMAIN tableref.propmap :
        LET propref == tableref.propmap[id]
        IN  propref.undone # NotUndone =>
                /\ propref.valtype = propref.srv.val.type
                /\ propref.areamap = editls(propref.srv.val)
                /\ propref.val = propref.srv
                /\ ~propref.dirty
                /\ propref.warning = ""

\* C21 happens: Revert has undone a type change and a text edit of a row,
\* which shows the server's text again.
C21_Witness ==
    \E id \in DOMAIN tableref.propmap :
        /\ tableref.propmap[id].undone = {"text", "type"}
        /\ tableref.propmap[id].valtype = "text"
        /\ tableref.propmap[id].areamap["text"] = "a"

\* C22: proplist never holds an id twice and holds exactly the keys of
\* propmap; the success callback of a delete leaves the id in neither, and
\* the callback of a save or an add-new for an id that has a row leaves
\* the number of rows as it is.
C22_ProplistMatchesPropmap ==
    /\ [](/\ Cardinality(ListIds(tableref.proplist)) = Len(tableref.proplist)
          /\ ListIds(tableref.proplist) = DOMAIN tableref.propmap)
    /\ [][\A a \in answers :
              a \notin answers' =>
                  /\ a.kind = "delete" =>
                         /\ a.id \notin DOMAIN tableref'.propmap
                         /\ a.id \notin ListIds(tableref'.proplist)
                  /\ (a.kind = "prop" /\ a.id \in DOMAIN tableref.propmap) =>
                         tableref'.proplist = tableref.proplist]_vars

\* C22 happens: the row of p1 is gone after its delete was answered, and
\* the row of p2 is there after Add New was answered.
C22_Witness ==
    /\ tableref.proplist = <<"p2">>
    /\ DOMAIN tableref.propmap = {"p2"}
    /\ dbprops["p1"] = Tombstone
    /\ posts = {}
    /\ answers = {}

\* C24 as stated: a row that is clean (and not by Revert) while no POST
\* and no reply for it is on the way shows the value the server holds for
\* the property, and Revert would restore that value.
C24_SettledRowShowsServerValue ==
    \A id \in DOMAIN tableref.propmap :
        LET propref == tableref.propmap[id]
        IN  (/\ ~propref.dirty
             /\ propref.undone = NotUndone
             /\ \A p \in posts : p.id # id
             /\ \A a \in answers : a.id # id
             /\ id \in DOMAIN dbprops
             /\ dbprops[id] # Tombstone) =>
                /\ propref.valtype = dbprops[id].type
                /\ propref.areamap = editls(dbprops[id])
                /\ propref.val.val = dbprops[id]

\* C25 as stated: seg.selection is null or the id of a portal that is in
\* seg.map.
C25_SelectionInMap ==
    \/ view.plist_selection = "null"
    \/ \E i \in 1..Len(plist.map) : plist.map[i].key = view.plist_selection

\* The focus pane shows a special focus of type 'portal': a pane that is not
\* sliding out has the portal's content.
ShowsPortalFocus ==
    \E i \in 1..Len(view.panes) :
        /\ view.panes[i].anim # "up"
        /\ view.panes[i].content.kind = "portal"

\* C26 as stated: after every handled event (update, clearfocus, loss of
\* the connection) the 'portal' tool segment is present exactly when the
\* focus pane shows a special focus of type 'portal'.
C26_PortalSegmentFollowsFocus ==
    (view.seg_portal # "null") <=> ShowsPortalFocus

\* The positions of the focus panes whose animation is in anims.
PanesIn(anims) == {i \in 1..Len(view.panes) : view.panes[i].anim \in anims}

\* C27: whatever the timing of focus updates and slide animations, at most
\* one focus pane that is not sliding out exists; next to it there is at
\* most one pane sliding out, the pane that was settled when the focus was
\* last set or cleared, and it comes before the new pane.
C27_OneLiveFocusPane ==
    /\ Cardinality(PanesIn({"down", "none"})) <= 1
    /\ Cardinality(PanesIn({"up"})) <= 1
    /\ \A i \in PanesIn({"up"}) : \A j \in PanesIn({"down", "none"}) : i < j

\* A focus update arrived while a settled pane was shown: the old pane
\* slides out while the new one slides in.
C27_Witness ==
    /\ lastcmd = "update"
    /\ Len(view.panes) = 2
    /\ view.panes[1].anim = "up"
    /\ view.panes[2].anim = "down"
    /\ view.panes[1].content # view.panes[2].content

\* C28: connected implies everconnected and a websocket that is not null;
\* everconnected never goes back to false; websocket.send is invoked (a
\* message is added to wsout) only in a state where connected is true.
C28_ConnectionFlags ==
    /\ [](connected => everconnected /\ websocket # "null")
    /\ [][/\ everconnected => everconnected'
          /\ wsout' # wsout => connected /\ websocket # "null"]_vars

\* The websocket opened, a message was sent, and the websocket closed; a
\* line entered afterwards was not sent.
C28_Witness ==
    /\ ~connected
    /\ everconnected
    /\ websocket = "null"
    /\ Len(wsout) = 1
    /\ \E i \in 1..Len(issued) : ~issued[i].conn

\* The keys changed since the last uiprefs message was sent.
ChangedSinceSent ==
    {noted[j].key : j \in (PrevUpto(Len(fires) + 1) + 1)..Len(noted)}

\* C29: a run of send_uipref_changed while not connected sends nothing and
\* keeps the changed keys as they are; keys leave changed_uiprefs only in a
\* step that sends a uiprefs message containing them; so changed_uiprefs is
\* always the set of keys changed since the last message sent, and a run
\* while connected sends exactly these keys.
C29_ChangedKeysKeptUntilSent ==
    /\ [](changed_uiprefs = ChangedSinceSent)
    /\ [][/\ (Len(fires') > Len(fires) /\ ~connected) =>
                 /\ wsout' = wsout
                 /\ changed_uiprefs' = changed_uiprefs
          /\ (Len(fires') > Len(fires) /\ connected) =>
                 /\ Len(wsout') = Len(wsout) + 1
                 /\ wsout'[Len(wsout')].cmd = "uiprefs"
                 /\ DOMAIN wsout'[Len(wsout')].map = changed_uiprefs
          /\ (changed_uiprefs \ changed_uiprefs' # {}) =>
                 /\ Len(wsout') = Len(wsout) + 1
                 /\ wsout'[Len(wsout')].cmd = "uiprefs"
                 /\ changed_uiprefs \ changed_uiprefs'
                        \subseteq DOMAIN wsout'[Len(wsout')].map]_vars

\* The timer ran while the websocket was still connecting, with one key
\* changed; the other key was changed later, and the message sent after the
\* websocket opened carries both keys.
C29_Witness ==
    /\ Len(fires) = 2
    /\ ~fires[1].conn
    /\ fires[1].upto = 1
    /\ fires[2].conn
    /\ Len(noted) = 2
    /\ noted[1].key # noted[2].key
    /\ Len(wsout) = 1
    /\ DOMAIN wsout[1].map = PrefKeys
    /\ changed_uiprefs = {}

\* C30 as stated: every preference change is eventually sent. Once a key
\* is changed and the client is connected, the key is sent in a uiprefs
\* message (which is the only way it leaves changed_uiprefs) unless the
\* connection is lost first; no further preference change is needed.
C30_ChangeEventuallySent ==
    \A k \in PrefKeys :
        (k \in changed_uiprefs /\ connected)
            ~> (k \notin changed_uiprefs \/ ~connected)

(***************************************************************************)
(* Claims about the input line and its history (SpecInput, SpecInput000).  *)
(***************************************************************************)

\* The positions of the characters of a line that are not white space, and
\* the line without the white space at its ends.
NonSpace(val) == {i \in 1..Len(val) : val[i] # " "}

Trimmed(val) ==
    IF NonSpace(val) = {} THEN <<>>
    ELSE SubSeq(val, CHOOSE i \in NonSpace(val) : \A j \in NonSpace(val) : i <= j,
                     CHOOSE i \in NonSpace(val) : \A j \in NonSpace(val) : i >= j)

\* The command the input line stands for: ':' pose, '/' meta, else say.
CommandOf(t) ==
    IF t[1] = ":" THEN [cmd |-> "pose", text |-> Trimmed(Tail(t))]
    ELSE IF t[1] = "/" THEN [cmd |-> "meta", text |-> Trimmed(Tail(t))]
    ELSE [cmd |-> "say", text |-> t]

\* A blank line sends nothing and leaves the history and its position.
BlankLineIgnored ==
    /\ wsout' = wsout
    /\ eventhistory' = eventhistory
    /\ eventhistorypos' = eventhistorypos

\* C31 as stated: every line entered that is not blank after trimming
\* produces exactly one outbound command, chosen by its first character; a
\* blank line sends nothing and changes neither history nor position.
C31_LineSendsOneCommand ==
    [][entered'.n # entered.n =>
          IF Trimmed(entered'.val) = <<>> THEN BlankLineIgnored
          ELSE wsout' = Append(wsout, CommandOf(Trimmed(entered'.val)))]_vars

\* C31 as amended: while the client is connected, a line that is not blank
\* produces exactly that one command; while it is not connected the line
\* sends nothing and an error line is added to the event pane; a blank
\* line sends nothing and changes neither history nor position.
C31_LineSendsOneCommandIfConnected ==
    [][entered'.n # entered.n =>
          IF Trimmed(entered'.val) = <<>>
          THEN BlankLineIgnored /\ eventpane' = eventpane
          ELSE IF connected
          THEN /\ wsout' = Append(wsout, CommandOf(Trimmed(entered'.val)))
               /\ eventpane' = eventpane
          ELSE /\ wsout' = wsout
               /\ Len(eventpane') = Len(eventpane) + 1
               /\ eventpane'[Len(eventpane')].cls = "Event EventError"]_vars

\* C31 happens: ': w' was entered and sent as pose 'w', then '/h ' as meta
\* 'h'.
C31_Witness ==
    /\ entered.n = 2
    /\ wsout = <<[cmd |-> "pose", text |-> <<"w">>],
                 [cmd |-> "meta", text |-> <<"h">>]>>

\* C34 as stated: the history holds at most HISTORY_MAX entries, none of
\* them blank, and no two equal entries next to each other.
C34_HistoryBoundedNoBlank ==
    /\ Len(eventhistory) <= HISTORY_MAX
    /\ \A i \in 1..Len(eventhistory) : NonSpace(eventhistory[i]) # {}
    /\ \A i \in 1..(Len(eventhistory) - 1) : eventhistory[i] # eventhistory[i + 1]

\* C35: the history position stays within 0 .. eventhistory.length; a key
\* press moves it by at most one and not past either end; a line entered
\* that is not blank sets it to eventhistory.length.
C35_HistoryPosInRange ==
    /\ [](0 <= eventhistorypos /\ eventhistorypos <= Len(eventhistory))
    /\ [][/\ (entered'.n = entered.n) =>
                 /\ eventhistory' = eventhistory
                 /\ eventhistorypos' \in {eventhistorypos - 1, eventhistorypos,
                                          eventhistorypos + 1}
          /\ (entered'.n # entered.n /\ Trimmed(entered'.val) # <<>>) =>
                 eventhistorypos' = Len(eventhistory')]_vars

\* C35 happens: with a full history the user went up to the oldest entry,
\* which the field shows, and a line was entered before.
C35_Witness ==
    /\ Len(eventhistory) = HISTORY_MAX
    /\ entered.n >= 1
    /\ eventhistorypos = 0
    /\ inputval = eventhistory[1]

\* C33: the event pane never holds more than EVENT_TRIM_LIMIT lines. An
\* add that would take it above the limit leaves exactly the
\* EVENT_TRIM_KEEP most recent lines, the new line last and the others in
\* the order they had; any other add puts the new line after the lines
\* there were.
C33_EventPaneTrimmed ==
    /\ [](Len(eventpane) <= EVENT_TRIM_LIMIT)
    /\ [][eventpane' # eventpane =>
              LET old == Len(eventpane)
                  cut == IF old + 1 > EVENT_TRIM_LIMIT
                         THEN old + 1 - EVENT_TRIM_KEEP ELSE 0
              IN  /\ Len(eventpane') = old + 1 - cut
                  /\ \A i \in 1..(old - cut) : eventpane'[i] = eventpane[i + cut]
                  /\ eventpane'[old + 1 - cut].n = Handled']_vars

\* C33 happens: the pane was cut to EVENT_TRIM_KEEP lines by the line that
\* took it above the limit, and one more line has come since.
C33_Witness ==
    /\ Len(eventpane) = EVENT_TRIM_KEEP + 1
    /\ eventpane[1].n = EVENT_TRIM_LIMIT + 1 - EVENT_TRIM_KEEP + 1
    /\ eventpane[Len(eventpane)].n = EVENT_TRIM_LIMIT + 2

\* C32: an action command for entering or copying a portal carries a scid
\* only if the portal is 'standard' and the scid is the value the scope
\* selector has at the click, a value that is not empty and not the portal's
\* own scid; for a 'solo' or 'shared' portal no scid is sent.
C32_ScidOnlyForStandardChoice ==
    [][\A i \in (Len(wsout) + 1)..Len(wsout') :
          LET m == wsout'[i]
              portal == m.action[2]
          IN  (m.cmd = "action" /\ "scid" \in DOMAIN m) =>
                  /\ portal_instancing[portal] = "standard"
                  /\ m.scid = view.flexselect.value
                  /\ m.scid # NoScid
                  /\ m.scid # portal_scid[portal]]_vars

\* A click on the enter link of a 'standard' portal sent the scope the
\* user had chosen in the selector.
C32_Witness ==
    /\ wsout = <<[cmd |-> "action", action |-> <<"enter", "pA">>, scid |-> 2]>>
    /\ view.flexselect = FlexSelect(<<1, 2>>, 2)

=============================================================================
